---- MODULE Spec2Model ----
(***************************************************************************)
(* A model of execAI's execution engine: the Command entity               *)
(* (domain/entities/command.py), the ExecutionResult entity               *)
(* (domain/entities/execution_result.py) and the CommandExecutor          *)
(* (infrastructure/executor/command_executor.py), the Schedule entity     *)
(* (domain/entities/schedule.py) and the CronScheduler                    *)
(* (infrastructure/scheduler/cron_scheduler.py).                          *)
(*                                                                         *)
(* Python values are represented as follows.  A str is the sequence of    *)
(* its code points (Str turns a literal into one); an Optional[...]       *)
(* field is the empty tuple << >> for None and the one-element tuple      *)
(* << v >> for a value v; an enum member is its string value; an          *)
(* exception is a string, its type and its message; datetime.now() is    *)
(* the logical clock `now`.                                               *)
(***************************************************************************)
EXTENDS Integers, Sequences, FiniteSets, TLC

VARIABLES
    now,        \* the wall clock read by datetime.now() / time.time()
    delay,      \* the seconds that have passed while no thread waited for the clock
    cmd,        \* the Command object driven directly through its methods
    last,       \* the last call made on cmd: operation, exception, return value
    res,        \* the ExecutionResult object driven directly through its methods
    commands,   \* the Command objects handed to the executor
    threads,    \* per thread: the executor call it is in, and that call's locals
    procs,      \* the operating system's processes spawned by Popen
    running_processes,  \* CommandExecutor.running_processes, in insertion order
    sched,      \* the Schedule object driven directly through its methods
    objects,    \* the Schedule objects handed to the scheduler, by id
    schedules,  \* CronScheduler.schedules: its keys, in insertion order
    scheduler   \* CronScheduler: running, stop_event and the polling thread

execVars == <<commands, threads, procs, running_processes>>

schedVars == <<sched, objects, schedules, scheduler>>

vars == <<now, delay, cmd, last, res, commands, threads, procs, running_processes,
          sched, objects, schedules, scheduler>>

----------------------------------------------------------------------------
(* Bounds of the model. *)

MaxClock == 1

MaxExitCode == 1

MaxTimeout == 1

----------------------------------------------------------------------------
(* Python values. *)

None == << >>

Some(v) == << v >>

NoError == "none"

ValidationError == "ValidationError"

ErrCannotExecute == "ValueError: Command cannot be executed"

ErrNotRunning == "ValueError: Command is not running"

ErrCannotCancel == "ValueError: Command cannot be cancelled"

(* CommandStatus: the enum's string values. *)
PENDING == "pending"

RUNNING == "running"

COMPLETED == "completed"

FAILED == "failed"

CANCELLED == "cancelled"

CommandStatus == {PENDING, RUNNING, COMPLETED, FAILED, CANCELLED}

----------------------------------------------------------------------------
(* str operations. *)

(* The ASCII characters from code point 32 to 95, and from 97 to 126. *)
AsciiTo95 ==
    " !\"#$%&'()*+,-./0123456789:;<=>?@ABCDEFGHIJKLMNOPQRSTUVWXYZ[\\]^_"

AsciiFrom97 == "abcdefghijklmnopqrstuvwxyz{|}~"

(* The code point of every character a literal of this module holds. *)
CodePoint ==
    [ch \in {"\t", "\n", "\f", "\r"}
            \cup {SubSeq(AsciiTo95, i, i) : i \in 1..Len(AsciiTo95)}
            \cup {SubSeq(AsciiFrom97, i, i) : i \in 1..Len(AsciiFrom97)} |->
        IF ch = "\t" THEN 9
        ELSE IF ch = "\n" THEN 10
        ELSE IF ch = "\f" THEN 12
        ELSE IF ch = "\r" THEN 13
        ELSE IF \E i \in 1..Len(AsciiTo95) : SubSeq(AsciiTo95, i, i) = ch
        THEN 31 + CHOOSE i \in 1..Len(AsciiTo95) : SubSeq(AsciiTo95, i, i) = ch
        ELSE 96 + CHOOSE i \in 1..Len(AsciiFrom97) :
                      SubSeq(AsciiFrom97, i, i) = ch]

(* ord(ch) for a character written in a literal of this module. *)
ord(ch) == CodePoint[ch]

(* The str a literal of this module stands for. *)
Str(s) == [i \in 1..Len(s) |-> ord(SubSeq(s, i, i))]

(* c lies in one of the ranges <<first, last, ...>> of table. *)
InRanges(c, table) ==
    \E k \in 1..Len(table) : table[k][1] <= c /\ c <= table[k][2]

(* The characters str.strip() and str.split() take for white space       *)
(* (Py_UNICODE_ISSPACE): \t \n \v \f \r, 0x1c to 0x1f, the space, NEL,   *)
(* the no-break space and the Unicode spaces and line separators.        *)
Whitespace ==
    (9..13) \cup (28..32) \cup {133, 160, 5760} \cup (8192..8202)
        \cup {8232, 8233, 8239, 8287, 12288}

(* str.lower(): the characters that have a lower-case form of one        *)
(* character, as <<first, last, step, offset>>: every step-th character  *)
(* from first to last maps to itself plus offset (Unicode 14, the        *)
(* database of CPython 3.11).                                            *)
LowerRanges ==
    << <<65, 90, 1, 32>>, <<192, 214, 1, 32>>, <<216, 222, 1, 32>>,
       <<256, 302, 2, 1>>, <<306, 310, 2, 1>>, <<313, 327, 2, 1>>,
       <<330, 374, 2, 1>>, <<376, 376, 1, -121>>, <<377, 381, 2, 1>>,
       <<385, 385, 1, 210>>, <<386, 388, 2, 1>>, <<390, 390, 1, 206>>,
       <<391, 391, 1, 1>>, <<393, 394, 1, 205>>, <<395, 395, 1, 1>>,
       <<398, 398, 1, 79>>, <<399, 399, 1, 202>>, <<400, 400, 1, 203>>,
       <<401, 401, 1, 1>>, <<403, 403, 1, 205>>, <<404, 404, 1, 207>>,
       <<406, 406, 1, 211>>, <<407, 407, 1, 209>>, <<408, 408, 1, 1>>,
       <<412, 412, 1, 211>>, <<413, 413, 1, 213>>, <<415, 415, 1, 214>>,
       <<416, 420, 2, 1>>, <<422, 422, 1, 218>>, <<423, 423, 1, 1>>,
       <<425, 425, 1, 218>>, <<428, 428, 1, 1>>, <<430, 430, 1, 218>>,
       <<431, 431, 1, 1>>, <<433, 434, 1, 217>>, <<435, 437, 2, 1>>,
       <<439, 439, 1, 219>>, <<440, 440, 1, 1>>, <<444, 444, 1, 1>>,
       <<452, 452, 1, 2>>, <<453, 453, 1, 1>>, <<455, 455, 1, 2>>,
       <<456, 456, 1, 1>>, <<458, 458, 1, 2>>, <<459, 475, 2, 1>>,
       <<478, 494, 2, 1>>, <<497, 497, 1, 2>>, <<498, 500, 2, 1>>,
       <<502, 502, 1, -97>>, <<503, 503, 1, -56>>, <<504, 542, 2, 1>>,
       <<544, 544, 1, -130>>, <<546, 562, 2, 1>>,
       <<570, 570, 1, 10795>>, <<571, 571, 1, 1>>,
       <<573, 573, 1, -163>>, <<574, 574, 1, 10792>>,
       <<577, 577, 1, 1>>, <<579, 579, 1, -195>>, <<580, 580, 1, 69>>,
       <<581, 581, 1, 71>>, <<582, 590, 2, 1>>, <<880, 882, 2, 1>>,
       <<886, 886, 1, 1>>, <<895, 895, 1, 116>>, <<902, 902, 1, 38>>,
       <<904, 906, 1, 37>>, <<908, 908, 1, 64>>, <<910, 911, 1, 63>>,
       <<913, 929, 1, 32>>, <<931, 939, 1, 32>>, <<975, 975, 1, 8>>,
       <<984, 1006, 2, 1>>, <<1012, 1012, 1, -60>>,
       <<1015, 1015, 1, 1>>, <<1017, 1017, 1, -7>>,
       <<1018, 1018, 1, 1>>, <<1021, 1023, 1, -130>>,
       <<1024, 1039, 1, 80>>, <<1040, 1071, 1, 32>>,
       <<1120, 1152, 2, 1>>, <<1162, 1214, 2, 1>>,
       <<1216, 1216, 1, 15>>, <<1217, 1229, 2, 1>>,
       <<1232, 1326, 2, 1>>, <<1329, 1366, 1, 48>>,
       <<4256, 4293, 1, 7264>>, <<4295, 4295, 1, 7264>>,
       <<4301, 4301, 1, 7264>>, <<5024, 5103, 1, 38864>>,
       <<5104, 5109, 1, 8>>, <<7312, 7354, 1, -3008>>,
       <<7357, 7359, 1, -3008>>, <<7680, 7828, 2, 1>>,
       <<7838, 7838, 1, -7615>>, <<7840, 7934, 2, 1>>,
       <<7944, 7951, 1, -8>>, <<7960, 7965, 1, -8>>,
       <<7976, 7983, 1, -8>>, <<7992, 7999, 1, -8>>,
       <<8008, 8013, 1, -8>>, <<8025, 8031, 2, -8>>,
       <<8040, 8047, 1, -8>>, <<8072, 8079, 1, -8>>,
       <<8088, 8095, 1, -8>>, <<8104, 8111, 1, -8>>,
       <<8120, 8121, 1, -8>>, <<8122, 8123, 1, -74>>,
       <<8124, 8124, 1, -9>>, <<8136, 8139, 1, -86>>,
       <<8140, 8140, 1, -9>>, <<8152, 8153, 1, -8>>,
       <<8154, 8155, 1, -100>>, <<8168, 8169, 1, -8>>,
       <<8170, 8171, 1, -112>>, <<8172, 8172, 1, -7>>,
       <<8184, 8185, 1, -128>>, <<8186, 8187, 1, -126>>,
       <<8188, 8188, 1, -9>>, <<8486, 8486, 1, -7517>>,
       <<8490, 8490, 1, -8383>>, <<8491, 8491, 1, -8262>>,
       <<8498, 8498, 1, 28>>, <<8544, 8559, 1, 16>>,
       <<8579, 8579, 1, 1>>, <<9398, 9423, 1, 26>>,
       <<11264, 11311, 1, 48>>, <<11360, 11360, 1, 1>>,
       <<11362, 11362, 1, -10743>>, <<11363, 11363, 1, -3814>>,
       <<11364, 11364, 1, -10727>>, <<11367, 11371, 2, 1>>,
       <<11373, 11373, 1, -10780>>, <<11374, 11374, 1, -10749>>,
       <<11375, 11375, 1, -10783>>, <<11376, 11376, 1, -10782>>,
       <<11378, 11378, 1, 1>>, <<11381, 11381, 1, 1>>,
       <<11390, 11391, 1, -10815>>, <<11392, 11490, 2, 1>>,
       <<11499, 11501, 2, 1>>, <<11506, 11506, 1, 1>>,
       <<42560, 42604, 2, 1>>, <<42624, 42650, 2, 1>>,
       <<42786, 42798, 2, 1>>, <<42802, 42862, 2, 1>>,
       <<42873, 42875, 2, 1>>, <<42877, 42877, 1, -35332>>,
       <<42878, 42886, 2, 1>>, <<42891, 42891, 1, 1>>,
       <<42893, 42893, 1, -42280>>, <<42896, 42898, 2, 1>>,
       <<42902, 42920, 2, 1>>, <<42922, 42922, 1, -42308>>,
       <<42923, 42923, 1, -42319>>, <<42924, 42924, 1, -42315>>,
       <<42925, 42925, 1, -42305>>, <<42926, 42926, 1, -42308>>,
       <<42928, 42928, 1, -42258>>, <<42929, 42929, 1, -42282>>,
       <<42930, 42930, 1, -42261>>, <<42931, 42931, 1, 928>>,
       <<42932, 42946, 2, 1>>, <<42948, 42948, 1, -48>>,
       <<42949, 42949, 1, -42307>>, <<42950, 42950, 1, -35384>>,
       <<42951, 42953, 2, 1>>, <<42960, 42960, 1, 1>>,
       <<42966, 42968, 2, 1>>, <<42997, 42997, 1, 1>>,
       <<65313, 65338, 1, 32>>, <<66560, 66599, 1, 40>>,
       <<66736, 66771, 1, 40>>, <<66928, 66938, 1, 39>>,
       <<66940, 66954, 1, 39>>, <<66956, 66962, 1, 39>>,
       <<66964, 66965, 1, 39>>, <<68736, 68786, 1, 64>>,
       <<71840, 71871, 1, 32>>, <<93760, 93791, 1, 32>>,
       <<125184, 125217, 1, 34>> >>

(* The cased characters that are not case-ignorable, as <<first, last>>. *)
CasedRanges ==
    << <<65, 90>>, <<97, 122>>, <<170, 170>>, <<181, 181>>,
       <<186, 186>>, <<192, 214>>, <<216, 246>>, <<248, 442>>,
       <<444, 447>>, <<452, 659>>, <<661, 687>>, <<880, 883>>,
       <<886, 887>>, <<891, 893>>, <<895, 895>>, <<902, 902>>,
       <<904, 906>>, <<908, 908>>, <<910, 929>>, <<931, 1013>>,
       <<1015, 1153>>, <<1162, 1327>>, <<1329, 1366>>, <<1376, 1416>>,
       <<4256, 4293>>, <<4295, 4295>>, <<4301, 4301>>, <<4304, 4346>>,
       <<4349, 4351>>, <<5024, 5109>>, <<5112, 5117>>, <<7296, 7304>>,
       <<7312, 7354>>, <<7357, 7359>>, <<7424, 7467>>, <<7531, 7543>>,
       <<7545, 7578>>, <<7680, 7957>>, <<7960, 7965>>, <<7968, 8005>>,
       <<8008, 8013>>, <<8016, 8023>>, <<8025, 8025>>, <<8027, 8027>>,
       <<8029, 8029>>, <<8031, 8061>>, <<8064, 8116>>, <<8118, 8124>>,
       <<8126, 8126>>, <<8130, 8132>>, <<8134, 8140>>, <<8144, 8147>>,
       <<8150, 8155>>, <<8160, 8172>>, <<8178, 8180>>, <<8182, 8188>>,
       <<8450, 8450>>, <<8455, 8455>>, <<8458, 8467>>, <<8469, 8469>>,
       <<8473, 8477>>, <<8484, 8484>>, <<8486, 8486>>, <<8488, 8488>>,
       <<8490, 8493>>, <<8495, 8500>>, <<8505, 8505>>, <<8508, 8511>>,
       <<8517, 8521>>, <<8526, 8526>>, <<8544, 8575>>, <<8579, 8580>>,
       <<9398, 9449>>, <<11264, 11387>>, <<11390, 11492>>,
       <<11499, 11502>>, <<11506, 11507>>, <<11520, 11557>>,
       <<11559, 11559>>, <<11565, 11565>>, <<42560, 42605>>,
       <<42624, 42651>>, <<42786, 42863>>, <<42865, 42887>>,
       <<42891, 42894>>, <<42896, 42954>>, <<42960, 42961>>,
       <<42963, 42963>>, <<42965, 42969>>, <<42997, 42998>>,
       <<43002, 43002>>, <<43824, 43866>>, <<43872, 43880>>,
       <<43888, 43967>>, <<64256, 64262>>, <<64275, 64279>>,
       <<65313, 65338>>, <<65345, 65370>>, <<66560, 66639>>,
       <<66736, 66771>>, <<66776, 66811>>, <<66928, 66938>>,
       <<66940, 66954>>, <<66956, 66962>>, <<66964, 66965>>,
       <<66967, 66977>>, <<66979, 66993>>, <<66995, 67001>>,
       <<67003, 67004>>, <<68736, 68786>>, <<68800, 68850>>,
       <<71840, 71903>>, <<93760, 93823>>, <<119808, 119892>>,
       <<119894, 119964>>, <<119966, 119967>>, <<119970, 119970>>,
       <<119973, 119974>>, <<119977, 119980>>, <<119982, 119993>>,
       <<119995, 119995>>, <<119997, 120003>>, <<120005, 120069>>,
       <<120071, 120074>>, <<120077, 120084>>, <<120086, 120092>>,
       <<120094, 120121>>, <<120123, 120126>>, <<120128, 120132>>,
       <<120134, 120134>>, <<120138, 120144>>, <<120146, 120485>>,
       <<120488, 120512>>, <<120514, 120538>>, <<120540, 120570>>,
       <<120572, 120596>>, <<120598, 120628>>, <<120630, 120654>>,
       <<120656, 120686>>, <<120688, 120712>>, <<120714, 120744>>,
       <<120746, 120770>>, <<120772, 120779>>, <<122624, 122633>>,
       <<122635, 122654>>, <<125184, 125251>>, <<127280, 127305>>,
       <<127312, 127337>>, <<127344, 127369>> >>

(* The case-ignorable characters, as <<first, last>>. *)
CaseIgnorableRanges ==
    << <<39, 39>>, <<46, 46>>, <<58, 58>>, <<94, 94>>, <<96, 96>>,
       <<168, 168>>, <<173, 173>>, <<175, 175>>, <<180, 180>>,
       <<183, 184>>, <<688, 879>>, <<884, 885>>, <<890, 890>>,
       <<900, 901>>, <<903, 903>>, <<1155, 1161>>, <<1369, 1369>>,
       <<1375, 1375>>, <<1425, 1469>>, <<1471, 1471>>, <<1473, 1474>>,
       <<1476, 1477>>, <<1479, 1479>>, <<1524, 1524>>, <<1536, 1541>>,
       <<1552, 1562>>, <<1564, 1564>>, <<1600, 1600>>, <<1611, 1631>>,
       <<1648, 1648>>, <<1750, 1757>>, <<1759, 1768>>, <<1770, 1773>>,
       <<1807, 1807>>, <<1809, 1809>>, <<1840, 1866>>, <<1958, 1968>>,
       <<2027, 2037>>, <<2042, 2042>>, <<2045, 2045>>, <<2070, 2093>>,
       <<2137, 2139>>, <<2184, 2184>>, <<2192, 2193>>, <<2200, 2207>>,
       <<2249, 2306>>, <<2362, 2362>>, <<2364, 2364>>, <<2369, 2376>>,
       <<2381, 2381>>, <<2385, 2391>>, <<2402, 2403>>, <<2417, 2417>>,
       <<2433, 2433>>, <<2492, 2492>>, <<2497, 2500>>, <<2509, 2509>>,
       <<2530, 2531>>, <<2558, 2558>>, <<2561, 2562>>, <<2620, 2620>>,
       <<2625, 2626>>, <<2631, 2632>>, <<2635, 2637>>, <<2641, 2641>>,
       <<2672, 2673>>, <<2677, 2677>>, <<2689, 2690>>, <<2748, 2748>>,
       <<2753, 2757>>, <<2759, 2760>>, <<2765, 2765>>, <<2786, 2787>>,
       <<2810, 2815>>, <<2817, 2817>>, <<2876, 2876>>, <<2879, 2879>>,
       <<2881, 2884>>, <<2893, 2893>>, <<2901, 2902>>, <<2914, 2915>>,
       <<2946, 2946>>, <<3008, 3008>>, <<3021, 3021>>, <<3072, 3072>>,
       <<3076, 3076>>, <<3132, 3132>>, <<3134, 3136>>, <<3142, 3144>>,
       <<3146, 3149>>, <<3157, 3158>>, <<3170, 3171>>, <<3201, 3201>>,
       <<3260, 3260>>, <<3263, 3263>>, <<3270, 3270>>, <<3276, 3277>>,
       <<3298, 3299>>, <<3328, 3329>>, <<3387, 3388>>, <<3393, 3396>>,
       <<3405, 3405>>, <<3426, 3427>>, <<3457, 3457>>, <<3530, 3530>>,
       <<3538, 3540>>, <<3542, 3542>>, <<3633, 3633>>, <<3636, 3642>>,
       <<3654, 3662>>, <<3761, 3761>>, <<3764, 3772>>, <<3782, 3782>>,
       <<3784, 3789>>, <<3864, 3865>>, <<3893, 3893>>, <<3895, 3895>>,
       <<3897, 3897>>, <<3953, 3966>>, <<3968, 3972>>, <<3974, 3975>>,
       <<3981, 3991>>, <<3993, 4028>>, <<4038, 4038>>, <<4141, 4144>>,
       <<4146, 4151>>, <<4153, 4154>>, <<4157, 4158>>, <<4184, 4185>>,
       <<4190, 4192>>, <<4209, 4212>>, <<4226, 4226>>, <<4229, 4230>>,
       <<4237, 4237>>, <<4253, 4253>>, <<4348, 4348>>, <<4957, 4959>>,
       <<5906, 5908>>, <<5938, 5939>>, <<5970, 5971>>, <<6002, 6003>>,
       <<6068, 6069>>, <<6071, 6077>>, <<6086, 6086>>, <<6089, 6099>>,
       <<6103, 6103>>, <<6109, 6109>>, <<6155, 6159>>, <<6211, 6211>>,
       <<6277, 6278>>, <<6313, 6313>>, <<6432, 6434>>, <<6439, 6440>>,
       <<6450, 6450>>, <<6457, 6459>>, <<6679, 6680>>, <<6683, 6683>>,
       <<6742, 6742>>, <<6744, 6750>>, <<6752, 6752>>, <<6754, 6754>>,
       <<6757, 6764>>, <<6771, 6780>>, <<6783, 6783>>, <<6823, 6823>>,
       <<6832, 6862>>, <<6912, 6915>>, <<6964, 6964>>, <<6966, 6970>>,
       <<6972, 6972>>, <<6978, 6978>>, <<7019, 7027>>, <<7040, 7041>>,
       <<7074, 7077>>, <<7080, 7081>>, <<7083, 7085>>, <<7142, 7142>>,
       <<7144, 7145>>, <<7149, 7149>>, <<7151, 7153>>, <<7212, 7219>>,
       <<7222, 7223>>, <<7288, 7293>>, <<7376, 7378>>, <<7380, 7392>>,
       <<7394, 7400>>, <<7405, 7405>>, <<7412, 7412>>, <<7416, 7417>>,
       <<7468, 7530>>, <<7544, 7544>>, <<7579, 7679>>, <<8125, 8125>>,
       <<8127, 8129>>, <<8141, 8143>>, <<8157, 8159>>, <<8173, 8175>>,
       <<8189, 8190>>, <<8203, 8207>>, <<8216, 8217>>, <<8228, 8228>>,
       <<8231, 8231>>, <<8234, 8238>>, <<8288, 8292>>, <<8294, 8303>>,
       <<8305, 8305>>, <<8319, 8319>>, <<8336, 8348>>, <<8400, 8432>>,
       <<11388, 11389>>, <<11503, 11505>>, <<11631, 11631>>,
       <<11647, 11647>>, <<11744, 11775>>, <<11823, 11823>>,
       <<12293, 12293>>, <<12330, 12333>>, <<12337, 12341>>,
       <<12347, 12347>>, <<12441, 12446>>, <<12540, 12542>>,
       <<40981, 40981>>, <<42232, 42237>>, <<42508, 42508>>,
       <<42607, 42610>>, <<42612, 42621>>, <<42623, 42623>>,
       <<42652, 42655>>, <<42736, 42737>>, <<42752, 42785>>,
       <<42864, 42864>>, <<42888, 42890>>, <<42994, 42996>>,
       <<43000, 43001>>, <<43010, 43010>>, <<43014, 43014>>,
       <<43019, 43019>>, <<43045, 43046>>, <<43052, 43052>>,
       <<43204, 43205>>, <<43232, 43249>>, <<43263, 43263>>,
       <<43302, 43309>>, <<43335, 43345>>, <<43392, 43394>>,
       <<43443, 43443>>, <<43446, 43449>>, <<43452, 43453>>,
       <<43471, 43471>>, <<43493, 43494>>, <<43561, 43566>>,
       <<43569, 43570>>, <<43573, 43574>>, <<43587, 43587>>,
       <<43596, 43596>>, <<43632, 43632>>, <<43644, 43644>>,
       <<43696, 43696>>, <<43698, 43700>>, <<43703, 43704>>,
       <<43710, 43711>>, <<43713, 43713>>, <<43741, 43741>>,
       <<43756, 43757>>, <<43763, 43764>>, <<43766, 43766>>,
       <<43867, 43871>>, <<43881, 43883>>, <<44005, 44005>>,
       <<44008, 44008>>, <<44013, 44013>>, <<64286, 64286>>,
       <<64434, 64450>>, <<65024, 65039>>, <<65043, 65043>>,
       <<65056, 65071>>, <<65106, 65106>>, <<65109, 65109>>,
       <<65279, 65279>>, <<65287, 65287>>, <<65294, 65294>>,
       <<65306, 65306>>, <<65342, 65342>>, <<65344, 65344>>,
       <<65392, 65392>>, <<65438, 65439>>, <<65507, 65507>>,
       <<65529, 65531>>, <<66045, 66045>>, <<66272, 66272>>,
       <<66422, 66426>>, <<67456, 67461>>, <<67463, 67504>>,
       <<67506, 67514>>, <<68097, 68099>>, <<68101, 68102>>,
       <<68108, 68111>>, <<68152, 68154>>, <<68159, 68159>>,
       <<68325, 68326>>, <<68900, 68903>>, <<69291, 69292>>,
       <<69446, 69456>>, <<69506, 69509>>, <<69633, 69633>>,
       <<69688, 69702>>, <<69744, 69744>>, <<69747, 69748>>,
       <<69759, 69761>>, <<69811, 69814>>, <<69817, 69818>>,
       <<69821, 69821>>, <<69826, 69826>>, <<69837, 69837>>,
       <<69888, 69890>>, <<69927, 69931>>, <<69933, 69940>>,
       <<70003, 70003>>, <<70016, 70017>>, <<70070, 70078>>,
       <<70089, 70092>>, <<70095, 70095>>, <<70191, 70193>>,
       <<70196, 70196>>, <<70198, 70199>>, <<70206, 70206>>,
       <<70367, 70367>>, <<70371, 70378>>, <<70400, 70401>>,
       <<70459, 70460>>, <<70464, 70464>>, <<70502, 70508>>,
       <<70512, 70516>>, <<70712, 70719>>, <<70722, 70724>>,
       <<70726, 70726>>, <<70750, 70750>>, <<70835, 70840>>,
       <<70842, 70842>>, <<70847, 70848>>, <<70850, 70851>>,
       <<71090, 71093>>, <<71100, 71101>>, <<71103, 71104>>,
       <<71132, 71133>>, <<71219, 71226>>, <<71229, 71229>>,
       <<71231, 71232>>, <<71339, 71339>>, <<71341, 71341>>,
       <<71344, 71349>>, <<71351, 71351>>, <<71453, 71455>>,
       <<71458, 71461>>, <<71463, 71467>>, <<71727, 71735>>,
       <<71737, 71738>>, <<71995, 71996>>, <<71998, 71998>>,
       <<72003, 72003>>, <<72148, 72151>>, <<72154, 72155>>,
       <<72160, 72160>>, <<72193, 72202>>, <<72243, 72248>>,
       <<72251, 72254>>, <<72263, 72263>>, <<72273, 72278>>,
       <<72281, 72283>>, <<72330, 72342>>, <<72344, 72345>>,
       <<72752, 72758>>, <<72760, 72765>>, <<72767, 72767>>,
       <<72850, 72871>>, <<72874, 72880>>, <<72882, 72883>>,
       <<72885, 72886>>, <<73009, 73014>>, <<73018, 73018>>,
       <<73020, 73021>>, <<73023, 73029>>, <<73031, 73031>>,
       <<73104, 73105>>, <<73109, 73109>>, <<73111, 73111>>,
       <<73459, 73460>>, <<78896, 78904>>, <<92912, 92916>>,
       <<92976, 92982>>, <<92992, 92995>>, <<94031, 94031>>,
       <<94095, 94111>>, <<94176, 94177>>, <<94179, 94180>>,
       <<110576, 110579>>, <<110581, 110587>>, <<110589, 110590>>,
       <<113821, 113822>>, <<113824, 113827>>, <<118528, 118573>>,
       <<118576, 118598>>, <<119143, 119145>>, <<119155, 119170>>,
       <<119173, 119179>>, <<119210, 119213>>, <<119362, 119364>>,
       <<121344, 121398>>, <<121403, 121452>>, <<121461, 121461>>,
       <<121476, 121476>>, <<121499, 121503>>, <<121505, 121519>>,
       <<122880, 122886>>, <<122888, 122904>>, <<122907, 122913>>,
       <<122915, 122916>>, <<122918, 122922>>, <<123184, 123197>>,
       <<123566, 123566>>, <<123628, 123631>>, <<125136, 125142>>,
       <<125252, 125259>>, <<127995, 127999>>, <<917505, 917505>>,
       <<917536, 917631>>, <<917760, 917999>> >>

(* str.lower() of one character, out of context. *)
LowerChar(c) ==
    IF c < 128 THEN (IF c \in 65..90 THEN <<c + 32>> ELSE <<c>>)
    ELSE IF c = 304 THEN <<105, 775>>
    ELSE IF \E k \in 1..Len(LowerRanges) :
                /\ LowerRanges[k][1] <= c
                /\ c <= LowerRanges[k][2]
                /\ (c - LowerRanges[k][1]) % LowerRanges[k][3] = 0
    THEN LET k == CHOOSE k \in 1..Len(LowerRanges) :
                      /\ LowerRanges[k][1] <= c
                      /\ c <= LowerRanges[k][2]
                      /\ (c - LowerRanges[k][1]) % LowerRanges[k][3] = 0
         IN  <<c + LowerRanges[k][4]>>
    ELSE <<c>>

(* The capital sigma at position i of s is final: a cased character      *)
(* comes before it and none after it, case-ignorable characters skipped. *)
FinalSigma(s, i) ==
    LET before == {j \in 1..(i - 1) : ~InRanges(s[j], CaseIgnorableRanges)}
        after  == {j \in (i + 1)..Len(s) : ~InRanges(s[j], CaseIgnorableRanges)}
    IN  /\ before # {}
        /\ InRanges(s[CHOOSE j \in before : \A k \in before : k <= j],
                    CasedRanges)
        /\ \/ after = {}
           \/ ~InRanges(s[CHOOSE j \in after : \A k \in after : j <= k],
                        CasedRanges)

RECURSIVE LowerFrom(_, _)
(* str.lower() from position i on. *)
LowerFrom(s, i) ==
    IF i > Len(s) THEN << >>
    ELSE (IF s[i] = 931
          THEN (IF FinalSigma(s, i) THEN <<962>> ELSE <<963>>)
          ELSE LowerChar(s[i])) \o LowerFrom(s, i + 1)

(* str.lower() *)
lower(s) == LowerFrom(s, 1)

(* str.lstrip(): s from its first character that is not white space. *)
lstrip(s) ==
    LET kept == {i \in 1..Len(s) : s[i] \notin Whitespace}
    IN  IF kept = {} THEN << >>
        ELSE SubSeq(s, CHOOSE i \in kept : \A j \in kept : i <= j, Len(s))

(* str.rstrip(): s up to its last character that is not white space. *)
rstrip(s) ==
    LET kept == {i \in 1..Len(s) : s[i] \notin Whitespace}
    IN  IF kept = {} THEN << >>
        ELSE SubSeq(s, 1, CHOOSE i \in kept : \A j \in kept : j <= i)

(* str.strip() *)
strip(s) == rstrip(lstrip(s))

(* The end of the word of s that begins at position i. *)
WordEnd(s, i) ==
    CHOOSE j \in i..Len(s) :
        /\ j = Len(s) \/ s[j + 1] \in Whitespace
        /\ \A m \in i..j : s[m] \notin Whitespace

RECURSIVE SplitFrom(_, _)
(* The words of s from position i on. *)
SplitFrom(s, i) ==
    IF i > Len(s) THEN << >>
    ELSE IF s[i] \in Whitespace THEN SplitFrom(s, i + 1)
    ELSE <<SubSeq(s, i, WordEnd(s, i))>> \o SplitFrom(s, WordEnd(s, i) + 1)

(* str.split(): the words between runs of white space. *)
split(s) == SplitFrom(s, 1)

(* The code points from 128 that str.isprintable() rejects (repr escapes  *)
(* them), as ranges <<first, last>>.                                      *)
NonPrintableRanges ==
    << <<128, 160>>, <<173, 173>>, <<888, 889>>, <<896, 899>>,
       <<907, 907>>, <<909, 909>>, <<930, 930>>, <<1328, 1328>>,
       <<1367, 1368>>, <<1419, 1420>>, <<1424, 1424>>, <<1480, 1487>>,
       <<1515, 1518>>, <<1525, 1541>>, <<1564, 1564>>, <<1757, 1757>>,
       <<1806, 1807>>, <<1867, 1868>>, <<1970, 1983>>, <<2043, 2044>>,
       <<2094, 2095>>, <<2111, 2111>>, <<2140, 2141>>, <<2143, 2143>>,
       <<2155, 2159>>, <<2191, 2199>>, <<2274, 2274>>, <<2436, 2436>>,
       <<2445, 2446>>, <<2449, 2450>>, <<2473, 2473>>, <<2481, 2481>>,
       <<2483, 2485>>, <<2490, 2491>>, <<2501, 2502>>, <<2505, 2506>>,
       <<2511, 2518>>, <<2520, 2523>>, <<2526, 2526>>, <<2532, 2533>>,
       <<2559, 2560>>, <<2564, 2564>>, <<2571, 2574>>, <<2577, 2578>>,
       <<2601, 2601>>, <<2609, 2609>>, <<2612, 2612>>, <<2615, 2615>>,
       <<2618, 2619>>, <<2621, 2621>>, <<2627, 2630>>, <<2633, 2634>>,
       <<2638, 2640>>, <<2642, 2648>>, <<2653, 2653>>, <<2655, 2661>>,
       <<2679, 2688>>, <<2692, 2692>>, <<2702, 2702>>, <<2706, 2706>>,
       <<2729, 2729>>, <<2737, 2737>>, <<2740, 2740>>, <<2746, 2747>>,
       <<2758, 2758>>, <<2762, 2762>>, <<2766, 2767>>, <<2769, 2783>>,
       <<2788, 2789>>, <<2802, 2808>>, <<2816, 2816>>, <<2820, 2820>>,
       <<2829, 2830>>, <<2833, 2834>>, <<2857, 2857>>, <<2865, 2865>>,
       <<2868, 2868>>, <<2874, 2875>>, <<2885, 2886>>, <<2889, 2890>>,
       <<2894, 2900>>, <<2904, 2907>>, <<2910, 2910>>, <<2916, 2917>>,
       <<2936, 2945>>, <<2948, 2948>>, <<2955, 2957>>, <<2961, 2961>>,
       <<2966, 2968>>, <<2971, 2971>>, <<2973, 2973>>, <<2976, 2978>>,
       <<2981, 2983>>, <<2987, 2989>>, <<3002, 3005>>, <<3011, 3013>>,
       <<3017, 3017>>, <<3022, 3023>>, <<3025, 3030>>, <<3032, 3045>>,
       <<3067, 3071>>, <<3085, 3085>>, <<3089, 3089>>, <<3113, 3113>>,
       <<3130, 3131>>, <<3141, 3141>>, <<3145, 3145>>, <<3150, 3156>>,
       <<3159, 3159>>, <<3163, 3164>>, <<3166, 3167>>, <<3172, 3173>>,
       <<3184, 3190>>, <<3213, 3213>>, <<3217, 3217>>, <<3241, 3241>>,
       <<3252, 3252>>, <<3258, 3259>>, <<3269, 3269>>, <<3273, 3273>>,
       <<3278, 3284>>, <<3287, 3292>>, <<3295, 3295>>, <<3300, 3301>>,
       <<3312, 3312>>, <<3315, 3327>>, <<3341, 3341>>, <<3345, 3345>>,
       <<3397, 3397>>, <<3401, 3401>>, <<3408, 3411>>, <<3428, 3429>>,
       <<3456, 3456>>, <<3460, 3460>>, <<3479, 3481>>, <<3506, 3506>>,
       <<3516, 3516>>, <<3518, 3519>>, <<3527, 3529>>, <<3531, 3534>>,
       <<3541, 3541>>, <<3543, 3543>>, <<3552, 3557>>, <<3568, 3569>>,
       <<3573, 3584>>, <<3643, 3646>>, <<3676, 3712>>, <<3715, 3715>>,
       <<3717, 3717>>, <<3723, 3723>>, <<3748, 3748>>, <<3750, 3750>>,
       <<3774, 3775>>, <<3781, 3781>>, <<3783, 3783>>, <<3790, 3791>>,
       <<3802, 3803>>, <<3808, 3839>>, <<3912, 3912>>, <<3949, 3952>>,
       <<3992, 3992>>, <<4029, 4029>>, <<4045, 4045>>, <<4059, 4095>>,
       <<4294, 4294>>, <<4296, 4300>>, <<4302, 4303>>, <<4681, 4681>>,
       <<4686, 4687>>, <<4695, 4695>>, <<4697, 4697>>, <<4702, 4703>>,
       <<4745, 4745>>, <<4750, 4751>>, <<4785, 4785>>, <<4790, 4791>>,
       <<4799, 4799>>, <<4801, 4801>>, <<4806, 4807>>, <<4823, 4823>>,
       <<4881, 4881>>, <<4886, 4887>>, <<4955, 4956>>, <<4989, 4991>>,
       <<5018, 5023>>, <<5110, 5111>>, <<5118, 5119>>, <<5760, 5760>>,
       <<5789, 5791>>, <<5881, 5887>>, <<5910, 5918>>, <<5943, 5951>>,
       <<5972, 5983>>, <<5997, 5997>>, <<6001, 6001>>, <<6004, 6015>>,
       <<6110, 6111>>, <<6122, 6127>>, <<6138, 6143>>, <<6158, 6158>>,
       <<6170, 6175>>, <<6265, 6271>>, <<6315, 6319>>, <<6390, 6399>>,
       <<6431, 6431>>, <<6444, 6447>>, <<6460, 6463>>, <<6465, 6467>>,
       <<6510, 6511>>, <<6517, 6527>>, <<6572, 6575>>, <<6602, 6607>>,
       <<6619, 6621>>, <<6684, 6685>>, <<6751, 6751>>, <<6781, 6782>>,
       <<6794, 6799>>, <<6810, 6815>>, <<6830, 6831>>, <<6863, 6911>>,
       <<6989, 6991>>, <<7039, 7039>>, <<7156, 7163>>, <<7224, 7226>>,
       <<7242, 7244>>, <<7305, 7311>>, <<7355, 7356>>, <<7368, 7375>>,
       <<7419, 7423>>, <<7958, 7959>>, <<7966, 7967>>, <<8006, 8007>>,
       <<8014, 8015>>, <<8024, 8024>>, <<8026, 8026>>, <<8028, 8028>>,
       <<8030, 8030>>, <<8062, 8063>>, <<8117, 8117>>, <<8133, 8133>>,
       <<8148, 8149>>, <<8156, 8156>>, <<8176, 8177>>, <<8181, 8181>>,
       <<8191, 8207>>, <<8232, 8239>>, <<8287, 8303>>, <<8306, 8307>>,
       <<8335, 8335>>, <<8349, 8351>>, <<8385, 8399>>, <<8433, 8447>>,
       <<8588, 8591>>, <<9255, 9279>>, <<9291, 9311>>, <<11124, 11125>>,
       <<11158, 11158>>, <<11508, 11512>>, <<11558, 11558>>,
       <<11560, 11564>>, <<11566, 11567>>, <<11624, 11630>>,
       <<11633, 11646>>, <<11671, 11679>>, <<11687, 11687>>,
       <<11695, 11695>>, <<11703, 11703>>, <<11711, 11711>>,
       <<11719, 11719>>, <<11727, 11727>>, <<11735, 11735>>,
       <<11743, 11743>>, <<11870, 11903>>, <<11930, 11930>>,
       <<12020, 12031>>, <<12246, 12271>>, <<12284, 12288>>,
       <<12352, 12352>>, <<12439, 12440>>, <<12544, 12548>>,
       <<12592, 12592>>, <<12687, 12687>>, <<12772, 12783>>,
       <<12831, 12831>>, <<42125, 42127>>, <<42183, 42191>>,
       <<42540, 42559>>, <<42744, 42751>>, <<42955, 42959>>,
       <<42962, 42962>>, <<42964, 42964>>, <<42970, 42993>>,
       <<43053, 43055>>, <<43066, 43071>>, <<43128, 43135>>,
       <<43206, 43213>>, <<43226, 43231>>, <<43348, 43358>>,
       <<43389, 43391>>, <<43470, 43470>>, <<43482, 43485>>,
       <<43519, 43519>>, <<43575, 43583>>, <<43598, 43599>>,
       <<43610, 43611>>, <<43715, 43738>>, <<43767, 43776>>,
       <<43783, 43784>>, <<43791, 43792>>, <<43799, 43807>>,
       <<43815, 43815>>, <<43823, 43823>>, <<43884, 43887>>,
       <<44014, 44015>>, <<44026, 44031>>, <<55204, 55215>>,
       <<55239, 55242>>, <<55292, 63743>>, <<64110, 64111>>,
       <<64218, 64255>>, <<64263, 64274>>, <<64280, 64284>>,
       <<64311, 64311>>, <<64317, 64317>>, <<64319, 64319>>,
       <<64322, 64322>>, <<64325, 64325>>, <<64451, 64466>>,
       <<64912, 64913>>, <<64968, 64974>>, <<64976, 65007>>,
       <<65050, 65055>>, <<65107, 65107>>, <<65127, 65127>>,
       <<65132, 65135>>, <<65141, 65141>>, <<65277, 65280>>,
       <<65471, 65473>>, <<65480, 65481>>, <<65488, 65489>>,
       <<65496, 65497>>, <<65501, 65503>>, <<65511, 65511>>,
       <<65519, 65531>>, <<65534, 65535>>, <<65548, 65548>>,
       <<65575, 65575>>, <<65595, 65595>>, <<65598, 65598>>,
       <<65614, 65615>>, <<65630, 65663>>, <<65787, 65791>>,
       <<65795, 65798>>, <<65844, 65846>>, <<65935, 65935>>,
       <<65949, 65951>>, <<65953, 65999>>, <<66046, 66175>>,
       <<66205, 66207>>, <<66257, 66271>>, <<66300, 66303>>,
       <<66340, 66348>>, <<66379, 66383>>, <<66427, 66431>>,
       <<66462, 66462>>, <<66500, 66503>>, <<66518, 66559>>,
       <<66718, 66719>>, <<66730, 66735>>, <<66772, 66775>>,
       <<66812, 66815>>, <<66856, 66863>>, <<66916, 66926>>,
       <<66939, 66939>>, <<66955, 66955>>, <<66963, 66963>>,
       <<66966, 66966>>, <<66978, 66978>>, <<66994, 66994>>,
       <<67002, 67002>>, <<67005, 67071>>, <<67383, 67391>>,
       <<67414, 67423>>, <<67432, 67455>>, <<67462, 67462>>,
       <<67505, 67505>>, <<67515, 67583>>, <<67590, 67591>>,
       <<67593, 67593>>, <<67638, 67638>>, <<67641, 67643>>,
       <<67645, 67646>>, <<67670, 67670>>, <<67743, 67750>>,
       <<67760, 67807>>, <<67827, 67827>>, <<67830, 67834>>,
       <<67868, 67870>>, <<67898, 67902>>, <<67904, 67967>>,
       <<68024, 68027>>, <<68048, 68049>>, <<68100, 68100>>,
       <<68103, 68107>>, <<68116, 68116>>, <<68120, 68120>>,
       <<68150, 68151>>, <<68155, 68158>>, <<68169, 68175>>,
       <<68185, 68191>>, <<68256, 68287>>, <<68327, 68330>>,
       <<68343, 68351>>, <<68406, 68408>>, <<68438, 68439>>,
       <<68467, 68471>>, <<68498, 68504>>, <<68509, 68520>>,
       <<68528, 68607>>, <<68681, 68735>>, <<68787, 68799>>,
       <<68851, 68857>>, <<68904, 68911>>, <<68922, 69215>>,
       <<69247, 69247>>, <<69290, 69290>>, <<69294, 69295>>,
       <<69298, 69375>>, <<69416, 69423>>, <<69466, 69487>>,
       <<69514, 69551>>, <<69580, 69599>>, <<69623, 69631>>,
       <<69710, 69713>>, <<69750, 69758>>, <<69821, 69821>>,
       <<69827, 69839>>, <<69865, 69871>>, <<69882, 69887>>,
       <<69941, 69941>>, <<69960, 69967>>, <<70007, 70015>>,
       <<70112, 70112>>, <<70133, 70143>>, <<70162, 70162>>,
       <<70207, 70271>>, <<70279, 70279>>, <<70281, 70281>>,
       <<70286, 70286>>, <<70302, 70302>>, <<70314, 70319>>,
       <<70379, 70383>>, <<70394, 70399>>, <<70404, 70404>>,
       <<70413, 70414>>, <<70417, 70418>>, <<70441, 70441>>,
       <<70449, 70449>>, <<70452, 70452>>, <<70458, 70458>>,
       <<70469, 70470>>, <<70473, 70474>>, <<70478, 70479>>,
       <<70481, 70486>>, <<70488, 70492>>, <<70500, 70501>>,
       <<70509, 70511>>, <<70517, 70655>>, <<70748, 70748>>,
       <<70754, 70783>>, <<70856, 70863>>, <<70874, 71039>>,
       <<71094, 71095>>, <<71134, 71167>>, <<71237, 71247>>,
       <<71258, 71263>>, <<71277, 71295>>, <<71354, 71359>>,
       <<71370, 71423>>, <<71451, 71452>>, <<71468, 71471>>,
       <<71495, 71679>>, <<71740, 71839>>, <<71923, 71934>>,
       <<71943, 71944>>, <<71946, 71947>>, <<71956, 71956>>,
       <<71959, 71959>>, <<71990, 71990>>, <<71993, 71994>>,
       <<72007, 72015>>, <<72026, 72095>>, <<72104, 72105>>,
       <<72152, 72153>>, <<72165, 72191>>, <<72264, 72271>>,
       <<72355, 72367>>, <<72441, 72703>>, <<72713, 72713>>,
       <<72759, 72759>>, <<72774, 72783>>, <<72813, 72815>>,
       <<72848, 72849>>, <<72872, 72872>>, <<72887, 72959>>,
       <<72967, 72967>>, <<72970, 72970>>, <<73015, 73017>>,
       <<73019, 73019>>, <<73022, 73022>>, <<73032, 73039>>,
       <<73050, 73055>>, <<73062, 73062>>, <<73065, 73065>>,
       <<73103, 73103>>, <<73106, 73106>>, <<73113, 73119>>,
       <<73130, 73439>>, <<73465, 73647>>, <<73649, 73663>>,
       <<73714, 73726>>, <<74650, 74751>>, <<74863, 74863>>,
       <<74869, 74879>>, <<75076, 77711>>, <<77811, 77823>>,
       <<78895, 82943>>, <<83527, 92159>>, <<92729, 92735>>,
       <<92767, 92767>>, <<92778, 92781>>, <<92863, 92863>>,
       <<92874, 92879>>, <<92910, 92911>>, <<92918, 92927>>,
       <<92998, 93007>>, <<93018, 93018>>, <<93026, 93026>>,
       <<93048, 93052>>, <<93072, 93759>>, <<93851, 93951>>,
       <<94027, 94030>>, <<94088, 94094>>, <<94112, 94175>>,
       <<94181, 94191>>, <<94194, 94207>>, <<100344, 100351>>,
       <<101590, 101631>>, <<101641, 110575>>, <<110580, 110580>>,
       <<110588, 110588>>, <<110591, 110591>>, <<110883, 110927>>,
       <<110931, 110947>>, <<110952, 110959>>, <<111356, 113663>>,
       <<113771, 113775>>, <<113789, 113791>>, <<113801, 113807>>,
       <<113818, 113819>>, <<113824, 118527>>, <<118574, 118575>>,
       <<118599, 118607>>, <<118724, 118783>>, <<119030, 119039>>,
       <<119079, 119080>>, <<119155, 119162>>, <<119275, 119295>>,
       <<119366, 119519>>, <<119540, 119551>>, <<119639, 119647>>,
       <<119673, 119807>>, <<119893, 119893>>, <<119965, 119965>>,
       <<119968, 119969>>, <<119971, 119972>>, <<119975, 119976>>,
       <<119981, 119981>>, <<119994, 119994>>, <<119996, 119996>>,
       <<120004, 120004>>, <<120070, 120070>>, <<120075, 120076>>,
       <<120085, 120085>>, <<120093, 120093>>, <<120122, 120122>>,
       <<120127, 120127>>, <<120133, 120133>>, <<120135, 120137>>,
       <<120145, 120145>>, <<120486, 120487>>, <<120780, 120781>>,
       <<121484, 121498>>, <<121504, 121504>>, <<121520, 122623>>,
       <<122655, 122879>>, <<122887, 122887>>, <<122905, 122906>>,
       <<122914, 122914>>, <<122917, 122917>>, <<122923, 123135>>,
       <<123181, 123183>>, <<123198, 123199>>, <<123210, 123213>>,
       <<123216, 123535>>, <<123567, 123583>>, <<123642, 123646>>,
       <<123648, 124895>>, <<124903, 124903>>, <<124908, 124908>>,
       <<124911, 124911>>, <<124927, 124927>>, <<125125, 125126>>,
       <<125143, 125183>>, <<125260, 125263>>, <<125274, 125277>>,
       <<125280, 126064>>, <<126133, 126208>>, <<126270, 126463>>,
       <<126468, 126468>>, <<126496, 126496>>, <<126499, 126499>>,
       <<126501, 126502>>, <<126504, 126504>>, <<126515, 126515>>,
       <<126520, 126520>>, <<126522, 126522>>, <<126524, 126529>>,
       <<126531, 126534>>, <<126536, 126536>>, <<126538, 126538>>,
       <<126540, 126540>>, <<126544, 126544>>, <<126547, 126547>>,
       <<126549, 126550>>, <<126552, 126552>>, <<126554, 126554>>,
       <<126556, 126556>>, <<126558, 126558>>, <<126560, 126560>>,
       <<126563, 126563>>, <<126565, 126566>>, <<126571, 126571>>,
       <<126579, 126579>>, <<126584, 126584>>, <<126589, 126589>>,
       <<126591, 126591>>, <<126602, 126602>>, <<126620, 126624>>,
       <<126628, 126628>>, <<126634, 126634>>, <<126652, 126703>>,
       <<126706, 126975>>, <<127020, 127023>>, <<127124, 127135>>,
       <<127151, 127152>>, <<127168, 127168>>, <<127184, 127184>>,
       <<127222, 127231>>, <<127406, 127461>>, <<127491, 127503>>,
       <<127548, 127551>>, <<127561, 127567>>, <<127570, 127583>>,
       <<127590, 127743>>, <<128728, 128732>>, <<128749, 128751>>,
       <<128765, 128767>>, <<128884, 128895>>, <<128985, 128991>>,
       <<129004, 129007>>, <<129009, 129023>>, <<129036, 129039>>,
       <<129096, 129103>>, <<129114, 129119>>, <<129160, 129167>>,
       <<129198, 129199>>, <<129202, 129279>>, <<129620, 129631>>,
       <<129646, 129647>>, <<129653, 129655>>, <<129661, 129663>>,
       <<129671, 129679>>, <<129709, 129711>>, <<129723, 129727>>,
       <<129734, 129743>>, <<129754, 129759>>, <<129768, 129775>>,
       <<129783, 129791>>, <<129939, 129939>>, <<129995, 130031>>,
       <<130042, 131071>>, <<173792, 173823>>, <<177977, 177983>>,
       <<178206, 178207>>, <<183970, 183983>>, <<191457, 194559>>,
       <<195102, 196607>>, <<201547, 917759>>, <<918000, 1114111>> >>

HexDigit(d) == IF d < 10 THEN 48 + d ELSE 87 + d

(* n in lower-case hexadecimal, on the given number of digits. *)
RECURSIVE Hex(_, _)
Hex(n, digits) ==
    IF digits = 0 THEN << >>
    ELSE Hex(n \div 16, digits - 1) \o <<HexDigit(n % 16)>>

(* repr of one character of a str whose repr is quoted with quote. *)
ReprChar(c, quote) ==
    IF c = quote \/ c = 92 THEN <<92, c>>
    ELSE IF c = 9 THEN <<92, 116>>
    ELSE IF c = 10 THEN <<92, 110>>
    ELSE IF c = 13 THEN <<92, 114>>
    ELSE IF c < 32 \/ c = 127 THEN <<92, 120>> \o Hex(c, 2)
    ELSE IF c < 127 THEN <<c>>
    ELSE IF ~InRanges(c, NonPrintableRanges) THEN <<c>>
    ELSE IF c <= 255 THEN <<92, 120>> \o Hex(c, 2)
    ELSE IF c <= 65535 THEN <<92, 117>> \o Hex(c, 4)
    ELSE <<92, 85>> \o Hex(c, 8)

RECURSIVE ReprFrom(_, _, _)
ReprFrom(s, i, quote) ==
    IF i > Len(s) THEN << >>
    ELSE ReprChar(s[i], quote) \o ReprFrom(s, i + 1, quote)

(* repr(s) of a str: double quotes when s holds an apostrophe and no *)
(* double quote, single quotes otherwise.                            *)
repr(s) ==
    LET quote == IF /\ \E i \in 1..Len(s) : s[i] = 39
                    /\ \A i \in 1..Len(s) : s[i] # 34
                 THEN 34 ELSE 39
    IN  <<quote>> \o ReprFrom(s, 1, quote) \o <<quote>>

(* os.strerror(errno). *)
strerror(errno) ==
    CASE errno = 1  -> Str("Operation not permitted")
      [] errno = 2  -> Str("No such file or directory")
      [] errno = 5  -> Str("Input/output error")
      [] errno = 7  -> Str("Argument list too long")
      [] errno = 8  -> Str("Exec format error")
      [] errno = 11 -> Str("Resource temporarily unavailable")
      [] errno = 12 -> Str("Cannot allocate memory")
      [] errno = 13 -> Str("Permission denied")
      [] errno = 20 -> Str("Not a directory")
      [] errno = 21 -> Str("Is a directory")
      [] errno = 22 -> Str("Invalid argument")
      [] errno = 23 -> Str("Too many open files in system")
      [] errno = 24 -> Str("Too many open files")
      [] errno = 26 -> Str("Text file busy")
      [] errno = 36 -> Str("File name too long")
      [] errno = 40 -> Str("Too many levels of symbolic links")
      [] errno = 80 -> Str("Accessing a corrupted shared library")

(* str(e) of an OSError made from an errno and a file name (None when *)
(* the failing call names no file).                                   *)
OSErrorStr(errno, filename) ==
    Str("[Errno ") \o Str(ToString(errno)) \o Str("] ") \o strerror(errno)
    \o (IF filename = None THEN << >> ELSE Str(": ") \o repr(filename[1]))

(* os.fsencode(s) under utf-8 with surrogateescape: it raises for a    *)
(* surrogate that does not stand for a byte (U+DC80 to U+DCFF do).     *)
fsencode_raises(s) ==
    \E i \in 1..Len(s) : s[i] \in 55296..57343 /\ s[i] \notin 56448..56575

(* str(e) of that UnicodeEncodeError: the range runs from the first    *)
(* such surrogate to the end of the run of surrogates it stands in.    *)
fsencode_error(s) ==
    LET bad  == {i \in 1..Len(s) :
                    s[i] \in 55296..57343 /\ s[i] \notin 56448..56575}
        k    == CHOOSE i \in bad : \A j \in bad : i <= j
        runs == {j \in k..Len(s) : \A m \in k..j : s[m] \in 55296..57343}
        e    == CHOOSE j \in runs : \A m \in runs : m <= j
    IN  Str("'utf-8' codec can't encode character")
        \o (IF e = k
            THEN Str(" '") \o <<92, 117>> \o Hex(s[k], 4) \o Str("' in position ")
                 \o Str(ToString(k - 1))
            ELSE Str("s in position ") \o Str(ToString(k - 1)) \o Str("-")
                 \o Str(ToString(e - 1)))
        \o Str(": surrogates not allowed")

(* The exception text when an argument Popen hands to the operating  *)
(* system cannot be converted, or None.                              *)
ArgumentError(arg) ==
    IF fsencode_raises(arg) THEN Some(fsencode_error(arg))
    ELSE IF \E i \in 1..Len(arg) : arg[i] = 0
    THEN Some(Str("embedded null byte"))
    ELSE None

(* Popen converts the program, the arguments in order, then the       *)
(* working directory: the text of the first failure, or None.         *)
ConversionError(cmd_parts, working_directory) ==
    LET args == IF working_directory = None THEN cmd_parts
                ELSE Append(cmd_parts, working_directory[1])
        bad  == {i \in 1..Len(args) : ArgumentError(args[i]) # None}
    IN  IF bad = {} THEN None
        ELSE ArgumentError(args[CHOOSE i \in bad : \A j \in bad : i <= j])

RECURSIVE FindFrom(_, _, _)
(* The scan of `sub in s` from position i: the first match decides. *)
FindFrom(sub, s, i) ==
    IF i + Len(sub) - 1 > Len(s) THEN FALSE
    ELSE IF SubSeq(s, i, i + Len(sub) - 1) = sub THEN TRUE
    ELSE FindFrom(sub, s, i + 1)

(* Python's `sub in s` on two str. *)
StrIn(sub, s) == FindFrom(sub, s, 1)

----------------------------------------------------------------------------
(* Command: validation. *)

(* validate_parsed_command: whether it raises. *)
validate_parsed_command_raises(v) == v = << >> \/ strip(v) = << >>

(* validate_parsed_command: the value stored when it does not raise. *)
validate_parsed_command(v) == strip(v)

(* A bug: a timeout of zero passes the validator. *)
validate_timeout_raises_negative_only(v) == v < 0

(* validate_timeout: whether it raises. *)
validate_timeout_raises(v) == v <= 0

validate_timeout(v) == v

(* Command(...): the object the constructor produces, or None when a *)
(* field validator raises (pydantic raises ValidationError).          *)
NewCommand(raw, timeout, status, safe_mode, t) ==
    IF validate_parsed_command_raises(raw) \/ validate_timeout_raises(timeout)
    THEN None
    ELSE Some([parsed_command |-> validate_parsed_command(raw),
               status         |-> status,
               timeout        |-> validate_timeout(timeout),
               safe_mode      |-> safe_mode,
               working_directory |-> None,
               updated_at     |-> t,
               executed_at    |-> None,
               completed_at   |-> None,
               exit_code      |-> None,
               stdout         |-> None,
               stderr         |-> None,
               execution_time |-> None])

----------------------------------------------------------------------------
(* Command: safety classification. *)

dangerous_commands ==
    << Str("rm"), Str("rmdir"), Str("del"), Str("delete"),
       Str("format"), Str("fdisk"), Str("mkfs"), Str("dd"),
       Str("shutdown"), Str("reboot"), Str("halt"), Str("poweroff"),
       Str("kill"), Str("killall"), Str("pkill"), Str("sudo"),
       Str("su"), Str("chmod 777"), Str("chown"), Str("passwd"),
       Str("userdel"), Str("groupdel"), Str("iptables"), Str("ufw"),
       Str("firewall"), Str("netsh"), Str("registry"), Str("regedit"),
       Str("systemctl"), Str("service"), Str("launchctl"),
       Str("crontab -r"), Str("history -c"), Str("truncate"),
       Str("shred"), Str("wipe"), Str("secure-delete") >>

RECURSIVE ScanDangerous(_, _)
(* The for loop of is_safe_command from entry k on. *)
ScanDangerous(command_lower, k) ==
    IF k > Len(dangerous_commands) THEN TRUE
    ELSE IF StrIn(dangerous_commands[k], command_lower) THEN FALSE
    ELSE ScanDangerous(command_lower, k + 1)

(* A bug: the command is not lower-cased before the scan. *)
is_safe_command_case_sensitive(c) == ScanDangerous(c.parsed_command, 1)

is_safe_command(c) == ScanDangerous(lower(c.parsed_command), 1)

(* A bug: safe mode is not consulted. *)
can_execute_ignoring_safe_mode(c) == c.status = PENDING

(* A bug: the status is not consulted. *)
can_execute_any_status(c) == ~(c.safe_mode /\ ~is_safe_command(c))

can_execute(c) ==
    IF c.status # PENDING THEN FALSE
    ELSE IF c.safe_mode /\ ~is_safe_command(c) THEN FALSE
    ELSE TRUE

----------------------------------------------------------------------------
(* Command: state transitions.  Each yields the exception raised (or     *)
(* none) and the object as the call leaves it.                            *)

(* A bug: the start is not time-stamped. *)
start_execution_unstamped(c, t) ==
    IF ~can_execute(c)
    THEN [raised |-> ErrCannotExecute, self |-> c]
    ELSE [raised |-> NoError,
          self   |-> [c EXCEPT !.status = RUNNING,
                               !.updated_at = t]]

start_execution(c, t) ==
    IF ~can_execute(c)
    THEN [raised |-> ErrCannotExecute, self |-> c]
    ELSE [raised |-> NoError,
          self   |-> [c EXCEPT !.status = RUNNING,
                               !.executed_at = Some(t),
                               !.updated_at = t]]

(* A bug: only a positive exit code counts as a failure. *)
complete_execution_positive_fails(c, exit_code, stdout, stderr, execution_time, t) ==
    IF c.status # RUNNING
    THEN [raised |-> ErrNotRunning, self |-> c]
    ELSE [raised |-> NoError,
          self   |-> [c EXCEPT !.status = IF exit_code > 0 THEN FAILED ELSE COMPLETED,
                               !.exit_code = Some(exit_code),
                               !.stdout = Some(stdout),
                               !.stderr = Some(stderr),
                               !.execution_time = Some(execution_time),
                               !.completed_at = Some(t),
                               !.updated_at = t]]

(* complete_execution, lines 178-186: the assignments. *)
complete_execution_writes(c, exit_code, stdout, stderr, execution_time, t) ==
    [c EXCEPT !.status = IF exit_code = 0 THEN COMPLETED ELSE FAILED,
              !.exit_code = Some(exit_code),
              !.stdout = Some(stdout),
              !.stderr = Some(stderr),
              !.execution_time = Some(execution_time),
              !.completed_at = Some(t),
              !.updated_at = t]

complete_execution(c, exit_code, stdout, stderr, execution_time, t) ==
    IF c.status # RUNNING
    THEN [raised |-> ErrNotRunning, self |-> c]
    ELSE [raised |-> NoError,
          self   |-> complete_execution_writes(c, exit_code, stdout, stderr,
                                               execution_time, t)]

(* A bug: cancel does not look at the status. *)
cancel_execution_unguarded(c, t) ==
    [raised |-> NoError,
     self   |-> [c EXCEPT !.status = CANCELLED, !.updated_at = t]]

cancel_execution(c, t) ==
    IF c.status \notin {PENDING, RUNNING}
    THEN [raised |-> ErrCannotCancel, self |-> c]
    ELSE [raised |-> NoError,
          self   |-> [c EXCEPT !.status = CANCELLED,
                               !.updated_at = t]]

----------------------------------------------------------------------------
(* ExecutionResult. *)

(* The fields the pydantic model declares. *)
ExecutionResultFields ==
    { "id", "command_id", "schedule_id", "started_at", "completed_at",
      "duration", "success", "exit_code", "stdout", "stderr",
      "memory_usage", "cpu_usage", "environment", "working_directory" }

(* The ValueError BaseModel.__setattr__ raises for a name that is not a *)
(* field of the model.                                                  *)
NoFieldError(name) ==
    "ValueError: \"ExecutionResult\" object has no field \"" \o name \o "\""

(* str(e) for an exception e: the message without the type. *)
ExceptionStr(raised) ==
    IF Len(raised) > 12 /\ SubSeq(raised, 1, 12) = "ValueError: "
    THEN Str(SubSeq(raised, 13, Len(raised)))
    ELSE Str(raised)

(* ExecutionResult(command_id=..., started_at=...): the other fields     *)
(* take their defaults.                                                  *)
NewExecutionResult(command_id, t) ==
    [command_id   |-> command_id,
     started_at   |-> t,
     completed_at |-> None,
     duration     |-> None,
     success      |-> FALSE,
     exit_code    |-> None,
     stdout       |-> None,
     stderr       |-> None]

(* result.<name> = value on a pydantic model: a name that is not a field *)
(* raises ValueError and assigns nothing.                                *)
setattr(result, name, value) ==
    IF name \in ExecutionResultFields
    THEN [raised |-> NoError, self |-> [result EXCEPT ![name] = value]]
    ELSE [raised |-> NoFieldError(name), self |-> result]

RECURSIVE SetAttrs(_, _)
(* A run of assignments, cut short by the first that raises. *)
SetAttrs(result, assignments) ==
    IF assignments = << >> THEN [raised |-> NoError, self |-> result]
    ELSE LET a == setattr(result, Head(assignments)[1], Head(assignments)[2])
         IN  IF a.raised # NoError THEN a
             ELSE SetAttrs(a.self, Tail(assignments))

(* calculate_duration *)
calculate_duration(result) ==
    IF result.completed_at # None
    THEN Some(result.completed_at[1] - result.started_at)
    ELSE None

(* is_successful *)
is_successful(r) ==
    r.success /\ (IF r.exit_code # None THEN r.exit_code[1] = 0 ELSE TRUE)

(* bool(x and x.strip()) for an Optional[str] x: None, the empty string  *)
(* and a string of white space only are all falsy.                       *)
Truthy(x) == x # None /\ x[1] # << >> /\ strip(x[1]) # << >>

(* has_output *)
has_output(r) == Truthy(r.stdout)

(* has_errors *)
has_errors(r) == Truthy(r.stderr) \/ ~is_successful(r)

(* The try block of execute_command once _run_command has returned rc.   *)
(* Yields the exception that leaves the block (or none), the result and  *)
(* the command as the block leaves them, and the arguments of the        *)
(* complete_execution call that went through.                            *)
ExecuteTryBlock(result, c, rc, t) ==
    LET a == SetAttrs(result,
                 << <<"success", rc.success>>,
                    <<"exit_code", Some(rc.exit_code)>>,
                    <<"stdout", Some(rc.stdout)>>,
                    <<"stderr", Some(rc.stderr)>>,
                    <<"execution_time", Some(rc.execution_time)>>,
                    <<"completed_at", Some(t)>> >>)
    IN  IF a.raised # NoError
        THEN [raised |-> a.raised, result |-> a.self, command |-> c, args |-> << >>]
        ELSE LET b == setattr(a.self, "duration", calculate_duration(a.self))
                 k == complete_execution(c, rc.exit_code, rc.stdout, rc.stderr,
                                         rc.execution_time, t)
             IN  IF b.raised # NoError
                 THEN [raised |-> b.raised, result |-> b.self, command |-> c,
                       args |-> << >>]
                 ELSE [raised |-> k.raised, result |-> b.self, command |-> k.self,
                       args |-> <<rc.exit_code, rc.stdout, rc.stderr,
                                  rc.execution_time>>]

(* The except block of execute_command for the exception whose str is e. *)
(* An exception raised inside it leaves execute_command.                 *)
ExecuteExceptBlock(result, c, e, t) ==
    LET a == SetAttrs(result,
                 << <<"success", FALSE>>,
                    <<"stderr", Some(e)>>,
                    <<"completed_at", Some(t)>> >>)
        b == setattr(a.self, "duration", calculate_duration(a.self))
        k == complete_execution(c, 1, << >>, e, 0, t)
    IN  [raised |-> k.raised, result |-> b.self, command |-> k.self,
         args |-> <<1, << >>, e, 0>>]

(* Lines 57-90 of execute_command: the exception that leaves the call    *)
(* (or none), the result returned and the command.  The try block runs   *)
(* once; the except block starts from what it left.                      *)
ExecuteUpdate(result, c, rc, t) ==
    CHOOSE u \in { IF try.raised = NoError THEN try
                   ELSE CHOOSE v \in { ExecuteExceptBlock(try.result, try.command, e, t) :
                                       e \in {ExceptionStr(try.raised)} } : TRUE :
                   try \in {ExecuteTryBlock(result, c, rc, t)} } : TRUE

----------------------------------------------------------------------------
(* Processes and the registry. *)

GracePeriod == 5

SIGTERM == 15

SIGKILL == 9

(* A process Popen has just spawned; child tells whether the program     *)
(* starts a child process of its own: "running" is a child that has      *)
(* inherited stdout and stderr of the program and so keeps the pipes     *)
(* open while it lives, "redirected" one that writes elsewhere.          *)
(* exited_at is the instant the program exited, eof_at the instant its   *)
(* stdout and stderr reached end-of-file: the program has exited and no  *)
(* child holds them.  id is id(process), the address of the Popen        *)
(* object.                                                               *)
NewProcess(child, id) ==
    [id         |-> id,
     state      |-> "running",
     returncode |-> None,
     exited_at  |-> None,
     eof_at     |-> None,
     signals    |-> {},
     child      |-> child,
     stdout     |-> << >>,
     stderr     |-> << >>]

(* Popen.send_signal: poll first, and signal the pid only if the process *)
(* has not exited.  The signal goes to the process alone.                *)
send_signal(ps, p, sig) ==
    IF ps[p].state = "exited" THEN ps
    ELSE [ps EXCEPT ![p].signals = @ \cup {sig}]

(* str(e) of the UnicodeDecodeError of the bytes b[start:end], positions *)
(* counted from 0.                                                       *)
UnicodeDecodeErrorStr(b, start, end, reason) ==
    IF end - start = 1
    THEN Str("'utf-8' codec can't decode byte 0x")
            \o Hex(b[start + 1], 2)
            \o Str(" in position ") \o Str(ToString(start))
            \o Str(": ") \o Str(reason)
    ELSE Str("'utf-8' codec can't decode bytes in position ")
            \o Str(ToString(start)) \o Str("-") \o Str(ToString(end - 1))
            \o Str(": ") \o Str(reason)

RECURSIVE utf_8_decode(_, _, _)
(* bytes.decode("utf-8", "strict") from the i-th byte on, text being the *)
(* code points decoded so far: the text, or str(e) of the error raised.  *)
utf_8_decode(b, i, text) ==
    IF i > Len(b) THEN [raised |-> None, text |-> text]
    ELSE IF b[i] < 128 THEN utf_8_decode(b, i + 1, Append(text, b[i]))
    ELSE IF b[i] < 194 \/ b[i] > 244
    THEN [raised |-> Some(UnicodeDecodeErrorStr(b, i - 1, i, "invalid start byte")),
          text   |-> << >>]
    ELSE LET ch    == b[i]
             n     == IF ch < 224 THEN 2 ELSE IF ch < 240 THEN 3 ELSE 4
             lo    == IF ch = 224 THEN 160 ELSE IF ch = 240 THEN 144 ELSE 128
             hi    == IF ch = 237 THEN 159 ELSE IF ch = 244 THEN 143 ELSE 191
             avail == Len(b) - i + 1
             last_ == IF avail < n THEN avail ELSE n
             bad   == {k \in 2..last_ :
                         IF k = 2 THEN b[i + 1] < lo \/ b[i + 1] > hi
                         ELSE b[i + k - 1] < 128 \/ b[i + k - 1] > 191}
         IN  IF bad # {}
             THEN LET k == CHOOSE j \in bad : \A m \in bad : j <= m
                  IN  [raised |-> Some(UnicodeDecodeErrorStr(b, i - 1, i + k - 2,
                                          "invalid continuation byte")),
                       text   |-> << >>]
             ELSE IF avail < n
             THEN [raised |-> Some(UnicodeDecodeErrorStr(b, i - 1, Len(b),
                                      "unexpected end of data")),
                   text   |-> << >>]
             ELSE utf_8_decode(b, i + n,
                     Append(text,
                        IF n = 2 THEN (ch - 192) * 64 + (b[i + 1] - 128)
                        ELSE IF n = 3
                        THEN (ch - 224) * 4096 + (b[i + 1] - 128) * 64
                                + (b[i + 2] - 128)
                        ELSE (ch - 240) * 262144 + (b[i + 1] - 128) * 4096
                                + (b[i + 2] - 128) * 64 + (b[i + 3] - 128)))

(* text.replace("\r\n", "\n").replace("\r", "\n") *)
universal_newlines(t) ==
    CHOOSE r \in
        { [j \in 1..Cardinality(keep) |->
              LET i == CHOOSE i \in keep : Cardinality({k \in keep : k < i}) = j - 1
              IN  IF t[i] = 13 THEN 10 ELSE t[i]] :
          keep \in {{i \in 1..Len(t) : ~(t[i] = 10 /\ i > 1 /\ t[i - 1] = 13)}} } :
        TRUE

(* Popen._translate_newlines of a text-mode pipe whose encoding is UTF-8  *)
(* (the locale's): the bytes are decoded, then "\r\n" and "\r" become    *)
(* "\n".                                                                 *)
translate_newlines(data) ==
    CHOOSE r \in
        { IF d.raised # None THEN d
          ELSE [raised |-> None, text |-> universal_newlines(d.text)] :
          d \in {utf_8_decode(data, 1, << >>)} } :
        TRUE

(* What communicate returns for the bytes the process wrote, stdout      *)
(* being decoded before stderr: the two texts, or str(e) of the          *)
(* UnicodeDecodeError.                                                   *)
communicate_decode(stdout, stderr) ==
    CHOOSE r \in
        { IF o.raised # None
          THEN [raised |-> o.raised, stdout |-> << >>, stderr |-> << >>]
          ELSE IF e.raised # None
          THEN [raised |-> e.raised, stdout |-> << >>, stderr |-> << >>]
          ELSE [raised |-> None, stdout |-> o.text, stderr |-> e.text] :
          o \in {translate_newlines(stdout)}, e \in {translate_newlines(stderr)} } :
        TRUE

(* The key under which _run_command registers a process (line 134):      *)
(* str(id(process)), the address of the Popen object written as a        *)
(* string.  Two processes have the same key when the later Popen object  *)
(* was given the address of the earlier one.                             *)
ProcessKey(p) == <<"id(process)", procs[p].id>>

(* The id of a Command, as a caller may pass it to cancel_command. *)
CommandKey(c) == <<"command.id", c>>

(* A dict of CPython, as far as its keys go.  entries is the table of    *)
(* the dict in insertion order: Some(key), or None where an entry was    *)
(* deleted, which stays in the table until the table is next resized.    *)
(* An entry of running_processes is written as the process it holds, its *)
(* key being ProcessKey of that process: the registry keeps the Popen    *)
(* object alive, so no two of its entries have the same key.             *)
(* usable is the number of entries the table takes before it is resized. *)
(* {}, and the dict after clear()                                        *)
NewDict == [entries |-> << >>, usable |-> 0]

(* The places of the table that hold a key. *)
DictPlaces(d) == {i \in 1..Len(d.entries) : d.entries[i] # None}

DictKeys(d) == {d.entries[i][1] : i \in DictPlaces(d)}

(* len(d) *)
DictLen(d) == Cardinality(DictPlaces(d))

(* key in d *)
DictHas(d, k) == \E i \in 1..Len(d.entries) : d.entries[i] = Some(k)

RECURSIVE PowerOfTwoFrom(_, _)
PowerOfTwoFrom(size, n) == IF size >= n THEN size ELSE PowerOfTwoFrom(2 * size, n)

(* The size of the table a resize allocates for minsize entries: the     *)
(* least power of two that is at least minsize | 8.                      *)
DictKeysSize(minsize) ==
    PowerOfTwoFrom(8, IF (minsize \div 8) % 2 = 1 THEN minsize ELSE minsize + 8)

(* A table that is full is resized before a new key is inserted: the     *)
(* holes go, and the new table is sized for three times the keys.        *)
DictResize(d) ==
    LET live == SelectSeq(d.entries, LAMBDA e : e # None)
    IN  [entries |-> live,
         usable  |-> (2 * DictKeysSize(3 * Len(live))) \div 3 - Len(live)]

(* d[key] = value: a key the dict has keeps its place. *)
DictSet(d, k) ==
    IF DictHas(d, k) THEN d
    ELSE LET r == IF d.usable <= 0 THEN DictResize(d) ELSE d
         IN  [entries |-> Append(r.entries, Some(k)), usable |-> r.usable - 1]

(* d.pop(key, None), and d.pop(key) for a key the dict has. *)
DictPop(d, k) ==
    [d EXCEPT !.entries = [i \in 1..Len(d.entries) |->
                              IF d.entries[i] = Some(k) THEN None ELSE d.entries[i]]]

(* No iteration is under way. *)
NoIter == [pos |-> 0, used |-> 0, len |-> 0]

(* iter(d), iter(d.values()), iter(d.items()): the place the iterator    *)
(* has reached, and the size of the dict and the number of keys still to *)
(* yield as they were when it was created.                               *)
DictIter(d) == [pos |-> 0, used |-> DictLen(d), len |-> DictLen(d)]

ErrDictChanged == "RuntimeError: dictionary changed size during iteration"

ErrDictKeysChanged == "RuntimeError: dictionary keys changed during iteration"

(* next(it): the RuntimeError raised, or stop (StopIteration), or the    *)
(* key yielded and the iterator after it.  The iterator looks at the     *)
(* size of the dict, then walks the table from its place on.             *)
DictNext(d, it) ==
    LET rest == {i \in DictPlaces(d) : i > it.pos}
    IN  IF it.used # DictLen(d)
        THEN [raised |-> ErrDictChanged, stop |-> FALSE, key |-> None, it |-> it]
        ELSE IF rest = {}
        THEN [raised |-> NoError, stop |-> TRUE, key |-> None, it |-> it]
        ELSE IF it.len = 0
        THEN [raised |-> ErrDictKeysChanged, stop |-> FALSE, key |-> None, it |-> it]
        ELSE LET i == CHOOSE j \in rest : \A k \in rest : j <= k
             IN  [raised |-> NoError, stop |-> FALSE, key |-> d.entries[i],
                  it |-> [it EXCEPT !.pos = i, !.len = @ - 1]]

ErrRejected(c) ==
    "ValueError: Command " \o ToString(c) \o " cannot be executed"

TimeoutMessage(timeout) ==
    Str("Command timed out after ") \o Str(ToString(timeout)) \o Str(" seconds")

(* The errno values of pipe and of fork; such an OSError names no file. *)
PipeErrnos == {23, 24}

ForkErrnos == {11, 12}

(* The errno values of chdir in the child; the OSError names the       *)
(* working directory.                                                  *)
ChdirErrnos == {2, 5, 12, 13, 20, 36, 40}

(* The errno values of execve; the OSError names cmd_parts[0]. *)
ExecErrnos == {1, 2, 5, 7, 8, 11, 12, 13, 20, 21, 22, 23, 24, 26, 36, 40, 80}

(* Popen can start the program: its arguments convert, and the working *)
(* directory is not the empty path, which chdir never finds.           *)
CanSpawn(command, working_directory) ==
    /\ ConversionError(split(command), working_directory) = None
    /\ working_directory # Some(<< >>)

(* str(e) of the exceptions Popen raises for command.split() run in    *)
(* working_directory: the pipes are made first, then the arguments are *)
(* converted, then the child is forked, changes directory and execs.   *)
LaunchErrors(command, working_directory) ==
    LET cmd_parts == split(command)
        failed    == ConversionError(cmd_parts, working_directory)
    IN  { OSErrorStr(n, None) : n \in PipeErrnos }
        \cup
        ( IF failed # None THEN {failed[1]}
          ELSE { OSErrorStr(n, None) : n \in ForkErrnos }
               \cup
               ( IF working_directory = None THEN {}
                 ELSE IF working_directory[1] = << >>
                 THEN {OSErrorStr(2, working_directory)}
                 ELSE { OSErrorStr(n, working_directory) : n \in ChdirErrnos } )
               \cup
               ( IF working_directory = Some(<< >>) THEN {}
                 ELSE { OSErrorStr(n, Some(cmd_parts[1])) : n \in ExecErrnos } ) )

(* The threads that call execute_command, each with its own event loop. *)
Executors == {"main", "worker"}

(* They, and the thread that calls cancel_command and cleanup. *)
Threads == Executors \cup {"ctl"}

IdleThread ==
    [pc         |-> "idle",
     op         |-> "none",
     command    |-> 0,
     handle     |-> None,
     process    |-> 0,
     path       |-> "none",
     cont       |-> "none",
     result     |-> None,
     start_time |-> 0,
     wait_start |-> 0,
     rc         |-> None,
     args       |-> << >>,
     it         |-> NoIter,
     item       |-> 0,
     tracked    |-> {},
     raised     |-> NoError,
     ret        |-> None]

(* The polling thread of the scheduler: no thread has been started. *)
NoThread ==
    [pc           |-> "none",
     current_time |-> 0,
     due          |-> << >>,
     wake         |-> 0,
     it           |-> NoIter,
     to_remove    |-> << >>,
     raised       |-> NoError]

(* The controlling thread of the scheduler: it is inside no call. *)
IdleCaller ==
    [pc           |-> "idle",
     op           |-> "none",
     id           |-> 0,
     current_time |-> 0,
     due          |-> << >>,
     it           |-> NoIter]

(* CronScheduler(): not running; calls counts the calls made so far. *)
NewCronScheduler ==
    [running |-> FALSE, stop_event |-> FALSE, thread |-> NoThread,
     detached |-> NoThread, join |-> None, caller |-> IdleCaller, calls |-> 0]

----------------------------------------------------------------------------
(* Inputs. *)

RawCommands ==
    { << >>, Str(" \t"), <<13>>, <<12, 11, 28, 160>>, <<5760, 8195>>,
      Str("ls -la"), Str(" echo hello\n"), Str("ls\r"), <<12>> \o Str("ls"),
      <<5760>> \o Str("ls") \o <<133>>, Str("rm -rf /"), Str("RM -rf /"),
      Str("Chmod 777 x"), Str("chmod 755 x"), Str("inform"),
      <<8490>> \o Str("ILL 1") }

Timeouts == (-1)..MaxTimeout

ExitCodes == (-MaxExitCode)..MaxExitCode

(* What a process wrote and how long it ran. *)
Outputs ==
    { [stdout |-> Str("hello\n"), stderr |-> << >>, execution_time |-> 0],
      [stdout |-> << >>, stderr |-> Str("command not found"),
       execution_time |-> 1] }

----------------------------------------------------------------------------
(* The Command entity driven through its own methods. *)

Tick ==
    /\ now < MaxClock
    /\ now' = now + 1
    /\ UNCHANGED <<delay, cmd, res, last>>
    /\ UNCHANGED <<execVars, schedVars>>

Construct(raw, timeout, status, safe_mode) ==
    /\ cmd = None
    /\ cmd' = NewCommand(raw, timeout, status, safe_mode, now)
    /\ last' = [op |-> "construct",
                raised |-> IF cmd' = None THEN ValidationError ELSE NoError,
                ret |-> None]
    /\ UNCHANGED <<now, delay, res, execVars, schedVars>>

CallIsSafeCommand ==
    /\ cmd # None
    /\ last' = [op |-> "is_safe_command", raised |-> NoError,
                ret |-> Some(is_safe_command(cmd[1]))]
    /\ UNCHANGED <<now, delay, cmd, res, execVars, schedVars>>

CallCanExecute ==
    /\ cmd # None
    /\ last' = [op |-> "can_execute", raised |-> NoError,
                ret |-> Some(can_execute(cmd[1]))]
    /\ UNCHANGED <<now, delay, cmd, res, execVars, schedVars>>

CallStartExecution ==
    /\ cmd # None
    /\ LET r == start_execution(cmd[1], now)
       IN  /\ cmd' = Some(r.self)
           /\ last' = [op |-> "start_execution",
                       raised |-> r.raised, ret |-> None]
    /\ UNCHANGED <<now, delay, res, execVars, schedVars>>

CallCompleteExecution(exit_code, stdout, stderr, execution_time) ==
    /\ cmd # None
    /\ LET r == complete_execution(cmd[1], exit_code, stdout, stderr,
                                   execution_time, now)
       IN  /\ cmd' = Some(r.self)
           /\ last' = [op |-> "complete_execution",
                       raised |-> r.raised, ret |-> None]
    /\ UNCHANGED <<now, delay, res, execVars, schedVars>>

CallCancelExecution ==
    /\ cmd # None
    /\ LET r == cancel_execution(cmd[1], now)
       IN  /\ cmd' = Some(r.self)
           /\ last' = [op |-> "cancel_execution",
                       raised |-> r.raised, ret |-> None]
    /\ UNCHANGED <<now, delay, res, execVars, schedVars>>

EntityInit ==
    /\ now = 0
    /\ delay = 0
    /\ cmd = None
    /\ res = None
    /\ last = [op |-> "init", raised |-> NoError, ret |-> None]
    /\ commands = << >>
    /\ threads = [th \in Threads |-> IdleThread]
    /\ procs = << >>
    /\ running_processes = NewDict
    /\ sched = None
    /\ objects = << >>
    /\ schedules = NewDict
    /\ scheduler = NewCronScheduler

EntityNext ==
    \/ Tick
    \/ \E raw \in RawCommands, timeout \in Timeouts,
          status \in CommandStatus, safe_mode \in BOOLEAN :
          Construct(raw, timeout, status, safe_mode)
    \/ CallIsSafeCommand
    \/ CallCanExecute
    \/ CallStartExecution
    \/ \E exit_code \in ExitCodes, out \in Outputs :
          CallCompleteExecution(exit_code, out.stdout, out.stderr, out.execution_time)
    \/ CallCancelExecution

SpecCommand == EntityInit /\ [][EntityNext]_vars

----------------------------------------------------------------------------
(* Properties of the Command entity. *)

Terminal == {COMPLETED, FAILED, CANCELLED}

(* The gate as the specification states it. *)
GateOpen(c) == c.status = PENDING /\ (~c.safe_mode \/ is_safe_command(c))

(* C1: can_execute returns true exactly when the status is PENDING and   *)
(* (safe_mode is false or is_safe_command is true), for every status,    *)
(* safe_mode and command string; so it is false for every RUNNING,       *)
(* COMPLETED, FAILED and CANCELLED command.                              *)
C1_CanExecuteIffGate ==
    (cmd # None /\ last.op = "can_execute") =>
        /\ last.ret = Some(GateOpen(cmd[1]))
        /\ cmd[1].status # PENDING => last.ret = Some(FALSE)

(* C1 witness: can_execute has answered false for a PENDING command that *)
(* is unsafe and in safe mode.                                           *)
C1_Witness ==
    /\ cmd # None
    /\ last.op = "can_execute"
    /\ last.ret = Some(FALSE)
    /\ cmd[1].status = PENDING
    /\ cmd[1].safe_mode
    /\ cmd[1].parsed_command = Str("rm -rf /")

(* C2: the state machine.  start succeeds only from PENDING and leads to *)
(* RUNNING; complete succeeds exactly from RUNNING and leads to          *)
(* COMPLETED or FAILED; cancel succeeds exactly from PENDING and RUNNING *)
(* and leads to CANCELLED; every call that fails raises the              *)
(* invalid-state error and leaves the object as it was; from COMPLETED,  *)
(* FAILED and CANCELLED all three fail, and no step changes a terminal   *)
(* status.                                                               *)
C2_StateMachine ==
    [][ cmd # None =>
        /\ CallStartExecution =>
              IF GateOpen(cmd[1])
              THEN last'.raised = NoError /\ cmd'[1].status = RUNNING
              ELSE last'.raised = ErrCannotExecute /\ cmd' = cmd
        /\ (\E e \in ExitCodes, out \in Outputs :
              CallCompleteExecution(e, out.stdout, out.stderr, out.execution_time)) =>
              IF cmd[1].status = RUNNING
              THEN last'.raised = NoError /\ cmd'[1].status \in {COMPLETED, FAILED}
              ELSE last'.raised = ErrNotRunning /\ cmd' = cmd
        /\ CallCancelExecution =>
              IF cmd[1].status \in {PENDING, RUNNING}
              THEN last'.raised = NoError /\ cmd'[1].status = CANCELLED
              ELSE last'.raised = ErrCannotCancel /\ cmd' = cmd
        /\ cmd[1].status \in Terminal =>
              /\ cmd' # None
              /\ cmd'[1].status = cmd[1].status
      ]_vars

(* C2 witness: cancel has been refused on a FAILED command. *)
C2_Witness ==
    /\ cmd # None
    /\ cmd[1].status = FAILED
    /\ last.op = "cancel_execution"
    /\ last.raised = ErrCannotCancel

(* C3: on a RUNNING command complete_execution(n, ...) sets COMPLETED    *)
(* when n = 0 and FAILED for every other n, negative ones included, and  *)
(* records the exit code, stdout, stderr and execution time it is given. *)
C3_CompleteRecords ==
    [][ \A e \in ExitCodes, out \in Outputs :
          ( /\ cmd # None
            /\ cmd[1].status = RUNNING
            /\ CallCompleteExecution(e, out.stdout, out.stderr, out.execution_time) )
          => /\ cmd'[1].status = (IF e = 0 THEN COMPLETED ELSE FAILED)
             /\ cmd'[1].exit_code = Some(e)
             /\ cmd'[1].stdout = Some(out.stdout)
             /\ cmd'[1].stderr = Some(out.stderr)
             /\ cmd'[1].execution_time = Some(out.execution_time)
      ]_vars

(* C3 witness: a command completed with a negative exit code is FAILED. *)
C3_Witness ==
    /\ cmd # None
    /\ last.op = "complete_execution"
    /\ last.raised = NoError
    /\ cmd[1].status = FAILED
    /\ cmd[1].exit_code = Some(-1)

(* A string with no character other than whitespace (the empty one too). *)
IsBlank(s) == \A i \in 1..Len(s) : s[i] \in Whitespace

(* C4: constructing a Command raises a validation error and produces no  *)
(* object whenever parsed_command is empty or whitespace-only or timeout *)
(* is zero or negative; every Command that exists has timeout > 0 and a  *)
(* parsed_command that is not blank.                                     *)
C4_ConstructionValidates ==
    /\ [](cmd # None => (cmd[1].timeout > 0 /\ ~IsBlank(cmd[1].parsed_command)))
    /\ [][ \A raw \in RawCommands, timeout \in Timeouts,
              status \in CommandStatus, safe_mode \in BOOLEAN :
              ( /\ Construct(raw, timeout, status, safe_mode)
                /\ (IsBlank(raw) \/ timeout <= 0) )
              => (cmd' = None /\ last'.raised = ValidationError)
         ]_vars

(* C4 witness: a construction has been refused and no object exists. *)
C4_Witness ==
    /\ last.op = "construct"
    /\ last.raised = ValidationError
    /\ cmd = None

(* Some deny-list entry occurs in the lower-cased string. *)
ContainsDenied(s) ==
    LET low == lower(s)
    IN  \E k \in DOMAIN dangerous_commands :
            \E i \in 1..Len(low) :
                /\ i + Len(dangerous_commands[k]) - 1 <= Len(low)
                /\ SubSeq(low, i, i + Len(dangerous_commands[k]) - 1)
                       = dangerous_commands[k]

(* C5: is_safe_command returns false exactly when the lower-cased        *)
(* command contains a deny-list entry as a substring, whatever the case  *)
(* it is spelled in, and true for every other command.                   *)
C5_SafeIffNoDeniedSubstring ==
    (cmd # None /\ last.op = "is_safe_command") =>
        last.ret = Some(~ContainsDenied(cmd[1].parsed_command))

(* C5 witness: a mixed-case spelling of the two-word entry is unsafe. *)
C5_Witness ==
    /\ cmd # None
    /\ last.op = "is_safe_command"
    /\ last.ret = Some(FALSE)
    /\ cmd[1].parsed_command = Str("Chmod 777 x")

----------------------------------------------------------------------------
(* CommandExecutor.  A thread is idle or inside one call; pc is the      *)
(* place in the code the call has reached.                               *)

MaxCommands == 3

MaxProcs == 3

(* The executions an executor has been through before it is looked at. *)
MaxEarlier == 3

MaxTime == 7

(* The seconds that may pass, in one behaviour, while no thread is      *)
(* blocked in a timed wait.                                             *)
MaxDelay == 1

CmdIds == DOMAIN commands

(* The command lines, timeouts and working directories a caller hands *)
(* to the executor, and the safe modes it hands them with: safe mode  *)
(* is switched off only for the command line it would reject.         *)
ExecCommands ==
    { [parsed_command |-> Str("ls -la"), timeout |-> 1,
       working_directory |-> None, safe_modes |-> {TRUE}],
      [parsed_command |-> Str("rm -rf /"), timeout |-> 2,
       working_directory |-> Some(Str("/srv/it's")), safe_modes |-> BOOLEAN],
      [parsed_command |-> Str("l\\s") \o <<5760, 0>>, timeout |-> 1,
       working_directory |-> None, safe_modes |-> {TRUE}] }

(* Command(parsed_command=..., working_directory=...): no validator    *)
(* touches the working directory.                                      *)
ExecInputs ==
    UNION { { [NewCommand(r.parsed_command, r.timeout, status, safe_mode, 0)[1]
                 EXCEPT !.working_directory = r.working_directory] :
              status \in CommandStatus, safe_mode \in r.safe_modes } :
            r \in ExecCommands }

(* How a process may end by itself: exit code and the bytes it wrote,    *)
(* among them line ends of other systems, a character of two bytes and   *)
(* bytes that are no UTF-8.                                              *)
ProcessOutcomes ==
    { [returncode |-> 0, stdout |-> Str("hello\n"), stderr |-> << >>],
      [returncode |-> 2, stdout |-> Str("usage\r\n"),
       stderr |-> Str("bad option ") \o <<195, 169>> \o Str("\r")],
      [returncode |-> 0, stdout |-> Str("caf") \o <<233>>, stderr |-> << >>] }

(* What a caller may pass to cancel_command: a string that is or was the *)
(* key of a process, or the id of a command, which is the key of none.   *)
Handles ==
    {ProcessKey(p) : p \in DOMAIN procs} \cup {CommandKey(c) : c \in CmdIds}

Self(th) == threads[th]

(* The Popen objects something still refers to: the values of the        *)
(* registry, the local variable process of a _run_command frame (from    *)
(* line 123 to the return of the frame), and the loop variable of a      *)
(* cancel_command or cleanup frame (lines 187 and 213), which keeps the  *)
(* value of its last turn until the next turn or the return.             *)
Referenced ==
    DictKeys(running_processes)
        \cup {Self(th).process :
                 th \in {t \in Threads :
                            /\ Self(t).op = "execute_command"
                            /\ Self(t).pc \in {"register", "communicate", "term_signal",
                                               "term_wait", "term_wait_killed",
                                               "timeout_return", "finally"}}}
        \cup UNION {{Self(th).process, Self(th).item} \ {0} :
                       th \in {t \in Threads :
                                  /\ Self(t).op \in {"cancel_command", "cleanup"}
                                  /\ Self(t).pc # "idle"}}

(* id(process) of a new Popen object, line 134.  CPython frees an object *)
(* when the last reference to it goes and gives its address to a later   *)
(* object or not: the new object has the address of a Popen object       *)
(* nothing refers to any more, or an address no Popen object has had.    *)
(* Addresses are only ever compared with each other, so of those no      *)
(* object has had the least stands for all.                              *)
FreeAddresses ==
    LET used == {procs[p].id : p \in DOMAIN procs}
        live == {procs[p].id : p \in Referenced}
    IN  (used \ live) \cup {Cardinality(used) + 1}

Goto(th, rec) == threads' = [threads EXCEPT ![th] = rec]

(* The thread after its call has ended: what the caller can see of it, *)
(* and the process and the path the call took.                         *)
Ended(th) ==
    [IdleThread EXCEPT !.op = Self(th).op,
                       !.command = Self(th).command,
                       !.process = Self(th).process,
                       !.path = Self(th).path]

Returned(th, ret) == [Ended(th) EXCEPT !.ret = Some(ret)]

Raised(th, e) == [Ended(th) EXCEPT !.raised = e]

(* communicate(timeout) returns: the process has exited and its pipes   *)
(* reached end-of-file before the timeout was over.                     *)
CommunicateDone(th) ==
    LET p == procs[Self(th).process]
    IN  /\ p.eof_at # None
        /\ p.eof_at[1] - Self(th).wait_start
               <= commands[Self(th).command].timeout

(* communicate(timeout) raises TimeoutExpired: the timeout is over and   *)
(* the pipes had not reached end-of-file before, the process running or  *)
(* a child holding them open.  The clock is read in whole seconds: an    *)
(* end-of-file in the second of the deadline may fall on either side.    *)
CommunicateExpired(th) ==
    LET p == procs[Self(th).process]
    IN  /\ now - Self(th).wait_start >= commands[Self(th).command].timeout
        /\ IF p.eof_at = None THEN TRUE
           ELSE p.eof_at[1] - Self(th).wait_start
                    >= commands[Self(th).command].timeout

(* wait(timeout=5) returns: the process exited within the grace period. *)
GraceKept(th) ==
    LET p == procs[Self(th).process]
    IN  /\ p.exited_at # None
        /\ p.exited_at[1] - Self(th).wait_start <= GracePeriod

(* A bug: no grace period is given. *)
GraceExpired_at_once(th) ==
    procs[Self(th).process].state = "running"

(* wait(timeout=5) raises TimeoutExpired: the grace period is over and  *)
(* the process had not exited before.                                   *)
GraceExpired(th) ==
    LET p == procs[Self(th).process]
    IN  /\ now - Self(th).wait_start >= GracePeriod
        /\ IF p.exited_at = None THEN TRUE
           ELSE p.exited_at[1] - Self(th).wait_start >= GracePeriod

(* The thread is blocked in a timed wait that can neither return nor     *)
(* time out yet: only the clock, or the process, can free it.            *)
Waiting(th) ==
    \/ /\ Self(th).pc = "communicate"
       /\ ~CommunicateDone(th)
       /\ ~CommunicateExpired(th)
    \/ /\ Self(th).pc = "term_wait"
       /\ ~GraceKept(th)
       /\ ~GraceExpired(th)

(* The clock (time.time, and the clock of the timed waits) advances,   *)
(* one second at a time, whatever the threads and the processes do.    *)
(* The seconds that pass while no thread waits for the clock are       *)
(* counted, and bounded by MaxDelay.                                   *)
TimePasses ==
    /\ now < MaxTime
    /\ now' = now + 1
    /\ IF \E th \in Threads : Waiting(th)
       THEN delay' = delay
       ELSE delay < MaxDelay /\ delay' = delay + 1
    /\ UNCHANGED <<cmd, res, last, execVars, schedVars>>

(* execute_command, lines 42-43: the gate. *)
ExecBegin(th, c) ==
    /\ Self(th).pc = "idle"
    /\ IF ~can_execute(commands[c])
       THEN Goto(th, [IdleThread EXCEPT !.op = "execute_command",
                                        !.command = c,
                                        !.raised = ErrRejected(c)])
       ELSE /\ Len(procs) < MaxProcs
            /\ Goto(th, [IdleThread EXCEPT !.op = "execute_command",
                                           !.command = c,
                                           !.pc = "start_check"])
    /\ UNCHANGED <<now, delay, cmd, res, last, schedVars, commands, procs, running_processes>>

(* execute_command, line 46: start_execution's own check (line 163).     *)
(* Its ValueError is raised outside the try block and leaves the call.   *)
ExecStartCheck(th) ==
    /\ Self(th).pc = "start_check"
    /\ IF ~can_execute(commands[Self(th).command])
       THEN Goto(th, Raised(th, ErrCannotExecute))
       ELSE Goto(th, [Self(th) EXCEPT !.pc = "start_set"])
    /\ UNCHANGED <<now, delay, cmd, res, last, schedVars, commands, procs, running_processes>>

(* start_execution, lines 166-168, the ExecutionResult of lines 49-55,   *)
(* and _run_command up to line 111, where start_time is read.            *)
ExecStartSet(th) ==
    /\ Self(th).pc = "start_set"
    /\ LET c == Self(th).command
       IN  /\ commands' = [commands EXCEPT ![c] =
                              [@ EXCEPT !.status = RUNNING,
                                        !.executed_at = Some(now),
                                        !.updated_at = now]]
           /\ Goto(th, [Self(th) EXCEPT !.pc = "popen",
                                        !.start_time = now,
                                        !.result = Some(NewExecutionResult(c, now))])
    /\ UNCHANGED <<now, delay, cmd, res, last, schedVars, procs, running_processes>>

(* _run_command, lines 119-131: Popen spawns the process, a program     *)
(* that starts a child of its own or none, and the Popen object is       *)
(* allocated.                                                            *)
ExecSpawn(th, child) ==
    /\ Self(th).pc = "popen"
    /\ CanSpawn(commands[Self(th).command].parsed_command,
                commands[Self(th).command].working_directory)
    /\ \E id \in FreeAddresses : procs' = Append(procs, NewProcess(child, id))
    /\ Goto(th, [Self(th) EXCEPT !.pc = "register", !.process = Len(procs) + 1])
    /\ UNCHANGED <<now, delay, cmd, res, last, schedVars, commands, running_processes>>

(* _run_command, lines 119-131 and 158-160: Popen raises and the outer   *)
(* except turns the exception into a return value.                       *)
ExecLaunchFails(th) ==
    /\ Self(th).pc = "popen"
    /\ \E e \in LaunchErrors(commands[Self(th).command].parsed_command,
                            commands[Self(th).command].working_directory) :
          Goto(th, [Self(th) EXCEPT !.pc = "update",
                                    !.path = "launch_failed",
                                    !.rc = Some([success |-> FALSE,
                                                 exit_code |-> -1,
                                                 stdout |-> << >>,
                                                 stderr |-> e,
                                                 execution_time |->
                                                     now - Self(th).start_time])])
    /\ UNCHANGED <<now, delay, cmd, res, last, schedVars, commands, procs, running_processes>>

(* _run_command, lines 119-131 and 158-160. *)
ExecPopen(th) ==
    \/ \E child \in {"none", "running", "redirected"} : ExecSpawn(th, child)
    \/ ExecLaunchFails(th)

(* _run_command, lines 134-135, up to the call of communicate. *)
ExecRegister(th) ==
    /\ Self(th).pc = "register"
    /\ running_processes' = DictSet(running_processes, Self(th).process)
    /\ Goto(th, [Self(th) EXCEPT !.pc = "communicate", !.wait_start = now])
    /\ UNCHANGED <<now, delay, cmd, res, last, schedVars, commands, procs>>

(* _run_command, lines 139-145: the process has exited and its pipes     *)
(* have reached end-of-file in time.  communicate decodes what was       *)
(* written and returns it, or raises the UnicodeDecodeError, which       *)
(* leaves the inner try block through its finally clause for the except  *)
(* clause of line 158.                                                   *)
ExecCommunicateReturns(th) ==
    /\ Self(th).pc = "communicate"
    /\ CommunicateDone(th)
    /\ \E d \in {communicate_decode(procs[Self(th).process].stdout,
                                     procs[Self(th).process].stderr)} :
          IF d.raised = None
          THEN Goto(th, [Self(th) EXCEPT
                  !.pc = "finally",
                  !.path = "exited",
                  !.rc = Some([success |-> procs[Self(th).process].returncode[1] = 0,
                               exit_code |-> procs[Self(th).process].returncode[1],
                               stdout |-> d.stdout,
                               stderr |-> d.stderr,
                               execution_time |-> now - Self(th).start_time])])
          ELSE Goto(th, [Self(th) EXCEPT
                  !.pc = "finally",
                  !.path = "decode_failed",
                  !.rc = Some([success |-> FALSE,
                               exit_code |-> -1,
                               stdout |-> << >>,
                               stderr |-> d.raised[1],
                               execution_time |-> 0])])
    /\ UNCHANGED <<now, delay, cmd, res, last, schedVars, commands, procs, running_processes>>

(* _run_command, lines 147-149: the timeout expired. *)
ExecCommunicateTimeout(th) ==
    /\ Self(th).pc = "communicate"
    /\ CommunicateExpired(th)
    /\ Goto(th, [Self(th) EXCEPT !.pc = "term_signal",
                                 !.path = "timeout",
                                 !.cont = "timeout_return"])
    /\ UNCHANGED <<now, delay, cmd, res, last, schedVars, commands, procs, running_processes>>

(* _run_command, lines 150-152. *)
ExecTimeoutReturn(th) ==
    /\ Self(th).pc = "timeout_return"
    /\ Goto(th, [Self(th) EXCEPT
           !.pc = "finally",
           !.rc = Some([success |-> FALSE,
                        exit_code |-> -1,
                        stdout |-> << >>,
                        stderr |-> TimeoutMessage(commands[Self(th).command].timeout),
                        execution_time |-> now - Self(th).start_time])])
    /\ UNCHANGED <<now, delay, cmd, res, last, schedVars, commands, procs, running_processes>>

(* _run_command, lines 154-156, and after a UnicodeDecodeError lines     *)
(* 158-160, where the execution time is taken.                           *)
ExecFinally(th) ==
    /\ Self(th).pc = "finally"
    /\ running_processes' = DictPop(running_processes, Self(th).process)
    /\ Goto(th, [Self(th) EXCEPT
           !.pc = "update",
           !.rc = IF Self(th).path = "decode_failed"
                  THEN Some([@[1] EXCEPT !.execution_time = now - Self(th).start_time])
                  ELSE @])
    /\ UNCHANGED <<now, delay, cmd, res, last, schedVars, commands, procs>>

(* execute_command, lines 66-88, up to the check complete_execution      *)
(* makes of the status (command.py, line 175): the ValueError of the     *)
(* check, raised inside the except block, leaves the call.               *)
ExecUpdate(th) ==
    /\ Self(th).pc = "update"
    /\ \E u \in {ExecuteUpdate(Self(th).result[1], commands[Self(th).command],
                                Self(th).rc[1], now)} :
          IF u.raised = NoError
          THEN Goto(th, [Self(th) EXCEPT !.pc = "complete",
                                         !.result = Some(u.result),
                                         !.args = u.args])
          ELSE Goto(th, Raised(th, u.raised))
    /\ UNCHANGED <<now, delay, cmd, res, last, schedVars, commands, procs, running_processes>>

(* complete_execution, lines 178-186, on the command as it is by now,    *)
(* and execute_command, line 90.                                         *)
ExecComplete(th) ==
    /\ Self(th).pc = "complete"
    /\ commands' = [commands EXCEPT ![Self(th).command] =
                       complete_execution_writes(@, Self(th).args[1], Self(th).args[2],
                                                 Self(th).args[3], Self(th).args[4],
                                                 now)]
    /\ Goto(th, Returned(th, Self(th).result[1]))
    /\ UNCHANGED <<now, delay, cmd, res, last, schedVars, procs, running_processes>>

(* _terminate_process, line 166. *)
TermSignal(th) ==
    /\ Self(th).pc = "term_signal"
    /\ procs' = send_signal(procs, Self(th).process, SIGTERM)
    /\ Goto(th, [Self(th) EXCEPT !.pc = "term_wait", !.wait_start = now])
    /\ UNCHANGED <<now, delay, cmd, res, last, schedVars, commands, running_processes>>

(* _terminate_process, line 168: the process exited within the wait. *)
TermWaitReturns(th) ==
    /\ Self(th).pc = "term_wait"
    /\ GraceKept(th)
    /\ Goto(th, [Self(th) EXCEPT !.pc = Self(th).cont])
    /\ UNCHANGED <<now, delay, cmd, res, last, schedVars, commands, procs, running_processes>>

(* A bug: the process is not killed when the grace period is over. *)
TermWaitTimeout_nokill(th) ==
    /\ Self(th).pc = "term_wait"
    /\ GraceExpired(th)
    /\ Goto(th, [Self(th) EXCEPT !.pc = "term_wait_killed"])
    /\ UNCHANGED <<now, delay, cmd, res, last, schedVars, commands, procs, running_processes>>

(* _terminate_process, lines 169-171: the wait timed out; kill. *)
TermWaitTimeout(th) ==
    /\ Self(th).pc = "term_wait"
    /\ GraceExpired(th)
    /\ procs' = send_signal(procs, Self(th).process, SIGKILL)
    /\ Goto(th, [Self(th) EXCEPT !.pc = "term_wait_killed"])
    /\ UNCHANGED <<now, delay, cmd, res, last, schedVars, commands, running_processes>>

(* _terminate_process, line 172. *)
TermWaitKilled(th) ==
    /\ Self(th).pc = "term_wait_killed"
    /\ procs[Self(th).process].state = "exited"
    /\ Goto(th, [Self(th) EXCEPT !.pc = Self(th).cont])
    /\ UNCHANGED <<now, delay, cmd, res, last, schedVars, commands, procs, running_processes>>

(* cancel_command, line 187: the iteration over the registry begins. *)
CancelBegin(th, h) ==
    /\ Self(th).pc = "idle"
    /\ Goto(th, [IdleThread EXCEPT !.op = "cancel_command",
                                   !.handle = Some(h),
                                   !.pc = "cancel_iter",
                                   !.it = DictIter(running_processes),
                                   !.tracked = DictKeys(running_processes)])
    /\ UNCHANGED <<now, delay, cmd, res, last, schedVars, commands, procs, running_processes>>

(* cancel_command, lines 187-191: one turn of the loop. *)
CancelIter(th) ==
    /\ Self(th).pc = "cancel_iter"
    /\ LET n == DictNext(running_processes, Self(th).it)
       IN  IF n.raised # NoError THEN Goto(th, Raised(th, n.raised))
           ELSE IF n.stop THEN Goto(th, Returned(th, FALSE))
           ELSE IF Some(ProcessKey(n.key[1])) = Self(th).handle
           THEN Goto(th, [Self(th) EXCEPT !.pc = "term_signal",
                                          !.it = n.it,
                                          !.item = 0,
                                          !.process = n.key[1],
                                          !.cont = "cancel_return"])
           ELSE Goto(th, [Self(th) EXCEPT !.it = n.it, !.item = n.key[1]])
    /\ UNCHANGED <<now, delay, cmd, res, last, schedVars, commands, procs, running_processes>>

(* cancel_command, line 190. *)
CancelReturn(th) ==
    /\ Self(th).pc = "cancel_return"
    /\ Goto(th, Returned(th, TRUE))
    /\ UNCHANGED <<now, delay, cmd, res, last, schedVars, commands, procs, running_processes>>

(* cleanup, line 213: the iteration over the registry begins. *)
CleanupBegin(th) ==
    /\ Self(th).pc = "idle"
    /\ Goto(th, [IdleThread EXCEPT !.op = "cleanup",
                                   !.pc = "cleanup_iter",
                                   !.it = DictIter(running_processes),
                                   !.tracked = DictKeys(running_processes)])
    /\ UNCHANGED <<now, delay, cmd, res, last, schedVars, commands, procs, running_processes>>

(* cleanup, lines 213-214: one turn of the loop, or its end. *)
CleanupIter(th) ==
    /\ Self(th).pc = "cleanup_iter"
    /\ LET n == DictNext(running_processes, Self(th).it)
       IN  IF n.raised # NoError THEN Goto(th, Raised(th, n.raised))
           ELSE IF n.stop THEN Goto(th, [Self(th) EXCEPT !.pc = "cleanup_clear"])
           ELSE Goto(th, [Self(th) EXCEPT !.pc = "term_signal",
                                          !.process = n.key[1],
                                          !.it = n.it,
                                          !.cont = "cleanup_iter"])
    /\ UNCHANGED <<now, delay, cmd, res, last, schedVars, commands, procs, running_processes>>

(* cleanup, line 215: the registry is cleared, whatever it holds by now. *)
CleanupClear(th) ==
    /\ Self(th).pc = "cleanup_clear"
    /\ Goto(th, Returned(th, "None"))
    /\ running_processes' = NewDict
    /\ UNCHANGED <<now, delay, cmd, res, last, schedVars, commands, procs>>

(* The process ends by itself. *)
ProcExits(p, out) ==
    /\ procs[p].state = "running"
    /\ procs' = [procs EXCEPT ![p].state = "exited",
                              ![p].returncode = Some(out.returncode),
                              ![p].exited_at = Some(now),
                              ![p].eof_at = IF procs[p].child = "running"
                                            THEN None ELSE Some(now),
                              ![p].stdout = out.stdout,
                              ![p].stderr = out.stderr]
    /\ UNCHANGED <<now, delay, cmd, res, last, schedVars, commands, threads, running_processes>>

(* The child the program started ends by itself. *)
ChildExits(p) ==
    /\ procs[p].child \in {"running", "redirected"}
    /\ procs' = [procs EXCEPT ![p].child = "exited",
                              ![p].eof_at = IF /\ procs[p].child = "running"
                                               /\ procs[p].state = "exited"
                                            THEN Some(now) ELSE @]
    /\ UNCHANGED <<now, delay, cmd, res, last, schedVars, commands, threads, running_processes>>

(* The process dies of a signal it was sent: SIGKILL cannot be caught,   *)
(* SIGTERM can be, so a process may as well live on after it.            *)
ProcDies(p, sig) ==
    /\ procs[p].state = "running"
    /\ sig \in procs[p].signals
    /\ procs' = [procs EXCEPT ![p].state = "exited",
                              ![p].returncode = Some(-sig),
                              ![p].exited_at = Some(now),
                              ![p].eof_at = IF procs[p].child = "running"
                                            THEN None ELSE Some(now)]
    /\ UNCHANGED <<now, delay, cmd, res, last, schedVars, commands, threads, running_processes>>

ExecInit ==
    /\ now = 0
    /\ delay = 0
    /\ cmd = None
    /\ res = None
    /\ last = [op |-> "init", raised |-> NoError, ret |-> None]
    /\ commands \in {<<c>> : c \in ExecInputs}
    /\ threads = [th \in Threads |-> IdleThread]
    /\ procs = << >>
    /\ running_processes = NewDict
    /\ sched = None
    /\ objects = << >>
    /\ schedules = NewDict
    /\ scheduler = NewCronScheduler

(* The steps of a thread inside _terminate_process. *)
Terminate(th) ==
    \/ TermSignal(th)
    \/ TermWaitReturns(th)
    \/ TermWaitTimeout(th)
    \/ TermWaitKilled(th)

(* The steps of a thread inside execute_command. *)
Execute(th) ==
    \/ ExecStartCheck(th)
    \/ ExecStartSet(th)
    \/ ExecPopen(th)
    \/ ExecRegister(th)
    \/ ExecCommunicateReturns(th)
    \/ ExecCommunicateTimeout(th)
    \/ ExecTimeoutReturn(th)
    \/ ExecFinally(th)
    \/ ExecUpdate(th)
    \/ ExecComplete(th)

(* What the processes and the clock do. *)
Environment ==
    \/ TimePasses
    \/ \E p \in DOMAIN procs, out \in ProcessOutcomes : ProcExits(p, out)
    \/ \E p \in DOMAIN procs : ChildExits(p)
    \/ \E p \in DOMAIN procs, sig \in {SIGTERM, SIGKILL} : ProcDies(p, sig)

(* One thread runs the commands, one after the other. *)
ExecNext ==
    \/ \E c \in CmdIds : ExecBegin("main", c)
    \/ Execute("main")
    \/ Terminate("main")
    \/ Environment

SpecExecutor == ExecInit /\ [][ExecNext]_vars

(* The steps of a thread inside cancel_command or cleanup. *)
Control(th) ==
    \/ \E h \in Handles : CancelBegin(th, h)
    \/ CancelIter(th)
    \/ CancelReturn(th)
    \/ CleanupBegin(th)
    \/ CleanupIter(th)
    \/ CleanupClear(th)

(* One thread runs the commands; another cancels them and shuts down. *)
ControlNext ==
    \/ \E c \in CmdIds : ExecBegin("main", c)
    \/ Execute("main")
    \/ Terminate("main")
    \/ Control("ctl")
    \/ Terminate("ctl")
    \/ Environment

SpecControl == ExecInit /\ [][ControlNext]_vars

(* A command that runs a harmless program. *)
ShutdownCommand ==
    NewCommand(Str("ls -la"), 1, PENDING, TRUE, 0)[1]

RECURSIVE EarlierExecutions(_)
(* The registry after n executions have come and gone, each having       *)
(* registered its process and removed it.                                *)
EarlierExecutions(n) ==
    IF n = 0 THEN NewDict
    ELSE DictPop(DictSet(EarlierExecutions(n - 1), MaxProcs + n), MaxProcs + n)

(* An executor that has been in use, and the commands still to run. *)
ShutdownInit ==
    /\ now = 0
    /\ delay = 0
    /\ cmd = None
    /\ res = None
    /\ last = [op |-> "init", raised |-> NoError, ret |-> None]
    /\ commands = [c \in 1..MaxCommands |-> ShutdownCommand]
    /\ threads = [th \in Threads |-> IdleThread]
    /\ procs = << >>
    /\ running_processes \in {NewDict, EarlierExecutions(MaxEarlier)}
    /\ sched = None
    /\ objects = << >>
    /\ schedules = NewDict
    /\ scheduler = NewCronScheduler

(* The commands are dealt out to the two executing threads in turn, and  *)
(* each thread runs its commands in their order.                         *)
Dealt(th, c) ==
    /\ th = (IF c % 2 = 1 THEN "main" ELSE "worker")
    /\ \A d \in 1..(c - 1) : d % 2 = c % 2 => commands[d].status # PENDING

(* Two threads run the commands while a third cancels one of them and    *)
(* then shuts down, cleanup being its last call.  The calls are followed *)
(* within one second of the clock: the programs start, and end by        *)
(* themselves or of the SIGTERM they are sent; no timeout expires.       *)
ShutdownNext ==
    \/ \E th \in Executors, c \in CmdIds : Dealt(th, c) /\ ExecBegin(th, c)
    \/ \E th \in Executors : ExecStartCheck(th)
    \/ \E th \in Executors : ExecStartSet(th)
    \/ \E th \in Executors : ExecSpawn(th, "none")
    \/ \E th \in Executors : ExecRegister(th)
    \/ \E th \in Executors : ExecCommunicateReturns(th)
    \/ \E th \in Executors : ExecFinally(th)
    \/ \E th \in Executors : ExecUpdate(th)
    \/ \E th \in Executors : ExecComplete(th)
    \/ \E p \in DOMAIN procs :
          ProcExits(p, [returncode |-> 0, stdout |-> Str("hello\n"),
                        stderr |-> << >>])
    \/ \E p \in DOMAIN procs : ProcDies(p, SIGTERM)
    \/ \E p \in DOMAIN procs :
          Self("ctl").op = "none" /\ CancelBegin("ctl", ProcessKey(p))
    \/ CancelIter("ctl")
    \/ CancelReturn("ctl")
    \/ Self("ctl").op # "cleanup" /\ CleanupBegin("ctl")
    \/ CleanupIter("ctl")
    \/ CleanupClear("ctl")
    \/ TermSignal("ctl")
    \/ TermWaitReturns("ctl")

SpecShutdown == ShutdownInit /\ [][ShutdownNext]_vars

----------------------------------------------------------------------------
(* Properties of the executor. *)

(* The thread's last call was execute_command and has ended. *)
ExecuteEnded(th) ==
    Self(th).pc = "idle" /\ Self(th).op = "execute_command"

(* C6: execute_command on a command that may not be executed (it is not  *)
(* PENDING, or it is unsafe and in safe mode) ends at once with the      *)
(* invalid-state error: no process is spawned, the registry gets no      *)
(* entry and the command keeps its status and its result fields.         *)
C6_RejectedExecuteHasNoEffect ==
    [][ \A c \in CmdIds :
          (ExecBegin("main", c) /\ ~GateOpen(commands[c]))
          => /\ threads'["main"].pc = "idle"
             /\ threads'["main"].raised = ErrRejected(c)
             /\ threads'["main"].ret = None
             /\ commands' = commands
             /\ procs' = procs
             /\ running_processes' = running_processes
      ]_vars

(* C6 witness: an unsafe PENDING command in safe mode has been rejected  *)
(* and nothing was spawned or registered.                                *)
C6_Witness ==
    /\ ExecuteEnded("main")
    /\ Self("main").raised = ErrRejected(1)
    /\ commands[1].status = PENDING
    /\ commands[1].safe_mode
    /\ commands[1].parsed_command = Str("rm -rf /")
    /\ procs = << >>
    /\ running_processes = NewDict

(* C7: when the process exits by itself before the timeout, the result   *)
(* execute_command returns has success true exactly when the exit code   *)
(* is 0, carries the exit code, stdout and stderr of the process, and    *)
(* the command ends COMPLETED when the exit code is 0 and FAILED         *)
(* otherwise.                                                            *)
C7_ExitedProcessIsReported ==
    \A th \in Threads :
        (ExecuteEnded(th) /\ Self(th).path = "exited")
        => LET p == procs[Self(th).process]
               c == commands[Self(th).command]
           IN  /\ Self(th).ret # None
               /\ Self(th).ret[1].success = (p.returncode[1] = 0)
               /\ Self(th).ret[1].exit_code = p.returncode
               /\ Self(th).ret[1].stdout = Some(translate_newlines(p.stdout).text)
               /\ Self(th).ret[1].stderr = Some(translate_newlines(p.stderr).text)
               /\ c.status = (IF p.returncode[1] = 0 THEN COMPLETED ELSE FAILED)

(* C8: when the process has not exited by the timeout, the result has    *)
(* success false, exit code -1, empty stdout and the timeout message as  *)
(* stderr, and the process is no longer running when the call returns.   *)
C8_TimeoutIsReported ==
    \A th \in Threads :
        (ExecuteEnded(th) /\ Self(th).path = "timeout")
        => /\ Self(th).ret # None
           /\ Self(th).ret[1].success = FALSE
           /\ Self(th).ret[1].exit_code = Some(-1)
           /\ Self(th).ret[1].stdout = Some(<< >>)
           /\ Self(th).ret[1].stderr =
                  Some(TimeoutMessage(commands[Self(th).command].timeout))
           /\ procs[Self(th).process].state = "exited"

(* C9: SIGKILL is sent to a process only by a thread that sent it        *)
(* SIGTERM first and then waited the whole grace period for it, and only *)
(* while the process is still running: never to a process that exited    *)
(* within the grace period, and never to one that was not sent SIGTERM.  *)
(* This holds for the termination on timeout, on cancel and on cleanup.  *)
C9_GracefulThenForced ==
    [][ \A p \in DOMAIN procs :
          (SIGKILL \in procs'[p].signals /\ SIGKILL \notin procs[p].signals)
          => /\ SIGTERM \in procs[p].signals
             /\ procs[p].state = "running"
             /\ \E th \in Threads :
                   /\ Self(th).pc = "term_wait"
                   /\ Self(th).process = p
                   /\ now - Self(th).wait_start >= GracePeriod
                   /\ threads'[th].pc = "term_wait_killed"
      ]_vars

(* C9 witness: a cancel has sent SIGKILL to a process that ignored       *)
(* SIGTERM for the grace period.                                         *)
C9_Witness ==
    /\ Self("ctl").op = "cancel_command"
    /\ Self("ctl").pc = "term_wait_killed"
    /\ procs[Self("ctl").process].signals = {SIGTERM, SIGKILL}
    /\ now - Self("ctl").wait_start >= GracePeriod

(* C10: once a termination by timeout or by cancel has finished, neither *)
(* the launched process nor a child it started is still running.         *)
C10_WholeGroupTerminated ==
    \A th \in Threads :
        ( /\ Self(th).pc = "idle"
          /\ \/ Self(th).op = "execute_command" /\ Self(th).path = "timeout"
             \/ Self(th).op = "cancel_command" /\ Self(th).ret = Some(TRUE) )
        => /\ procs[Self(th).process].state = "exited"
           /\ procs[Self(th).process].child \notin {"running", "redirected"}

(* C11: when the process cannot be launched, execute_command does not    *)
(* raise: it returns a result with success false and a stderr that is    *)
(* the description of the launch failure, and the command is completed   *)
(* with exit code 1 and ends FAILED.                                     *)
C11_LaunchFailureIsReported ==
    \A th \in Threads :
        (ExecuteEnded(th) /\ Self(th).path = "launch_failed")
        => /\ Self(th).raised = NoError
           /\ Self(th).ret # None
           /\ Self(th).ret[1].success = FALSE
           /\ Self(th).ret[1].stderr \in
                  {Some(e) : e \in LaunchErrors(commands[Self(th).command].parsed_command,
                            commands[Self(th).command].working_directory)}
           /\ commands[Self(th).command].status = FAILED
           /\ commands[Self(th).command].exit_code = Some(1)

(* The execution of process p is in flight: an execute_command call has  *)
(* registered it and has not yet removed it.                             *)
InFlight(p) ==
    \E th \in Threads :
        /\ Self(th).op = "execute_command"
        /\ Self(th).process = p
        /\ Self(th).pc \in {"communicate", "term_signal", "term_wait",
                            "term_wait_killed", "timeout_return", "finally"}

(* The keys of the registry. *)
RegistryKeys == {ProcessKey(p) : p \in DictKeys(running_processes)}

(* C12: a call of cancel_command returns, and returns True exactly when  *)
(* its argument is the key of an execution in flight, and then that      *)
(* process has been terminated (by SIGTERM, or by the SIGKILL that       *)
(* follows the grace period, see C9) when it returns; for any other      *)
(* argument (unknown, or of an execution that has finished) it returns   *)
(* False after signalling no process; and it never changes the registry. *)
(* The argument of a call that goes on to terminate a process is the key *)
(* of that execution alone, and of none that has finished.               *)
C12_CancelLooksUpInFlight ==
    [][ LET t  == threads["ctl"]
            t2 == threads'["ctl"]
        IN  (t.op = "cancel_command" /\ t.pc # "idle" /\ t2 # t)
            => /\ running_processes' = running_processes
               /\ \A q \in DOMAIN procs :
                      procs'[q] # procs[q]
                      => (q = t.process /\ t.pc \in {"term_signal", "term_wait"})
               /\ t2.pc = "idle" => t2.raised = NoError
               /\ (t2.pc = "idle" /\ t2.ret = Some(FALSE))
                  => /\ t.pc = "cancel_iter"
                     /\ t.process = 0
                     /\ ~ \E q \in t.tracked :
                            /\ t.handle = Some(ProcessKey(q))
                            /\ ProcessKey(q) \in RegistryKeys
               /\ t2.pc = "term_signal"
                  => /\ t.handle = Some(ProcessKey(t2.process))
                     /\ InFlight(t2.process)
                     /\ \A q \in DOMAIN procs :
                            t.handle = Some(ProcessKey(q)) => q = t2.process
               /\ (t2.pc = "idle" /\ t2.ret = Some(TRUE))
                  => /\ t.pc = "cancel_return"
                     /\ procs[t.process].state = "exited"
      ]_vars

(* C12 witness: a cancel of an execution in flight has returned True and *)
(* the process, sent SIGTERM, has exited.                                *)
C12_Witness ==
    /\ Self("ctl").pc = "idle"
    /\ Self("ctl").op = "cancel_command"
    /\ Self("ctl").ret = Some(TRUE)
    /\ procs[Self("ctl").process].state = "exited"
    /\ SIGTERM \in procs[Self("ctl").process].signals

(* What C12 takes for granted of a handle: the process a cancel_command  *)
(* call goes on to terminate is the only one its argument was ever the   *)
(* key of.  It fails where executions follow each other (SpecShutdown):  *)
(* the key of an execution that has finished is the key of a later one.  *)
KeyIdentifiesOneExecution ==
    \A p, q \in DOMAIN procs :
        ( /\ Self("ctl").op = "cancel_command"
          /\ Self("ctl").pc # "idle"
          /\ Self("ctl").handle = Some(ProcessKey(p))
          /\ Self("ctl").process = q )
        => p = q

(* The command whose execution is in flight under thread th. *)
InFlightCommand(th, c) ==
    /\ Self(th).op = "execute_command"
    /\ Self(th).command = c
    /\ InFlight(Self(th).process)
    /\ DictHas(running_processes, Self(th).process)

(* C13: cancel_command called with the id of a Command whose execution   *)
(* is in flight cancels it: the call does not return False, and the      *)
(* process it goes on to terminate is the one running that command.      *)
C13_CancelByCommandId ==
    [][ \A c \in CmdIds :
          LET t  == threads["ctl"]
              t2 == threads'["ctl"]
          IN  ( /\ t.op = "cancel_command"
                /\ t.pc = "cancel_iter"
                /\ t.handle = Some(CommandKey(c))
                /\ InFlightCommand("main", c)
                /\ DictLen(running_processes) = t.it.used
                /\ t2 # t )
              => /\ t2.ret # Some(FALSE)
                 /\ t2.pc = "term_signal" => t2.process = Self("main").process
      ]_vars

(* C14: when cleanup returns, every process that was in the registry     *)
(* when it was called has exited and the registry is empty.              *)
C14_CleanupTerminatesAll ==
    [][ LET t  == threads["ctl"]
            t2 == threads'["ctl"]
        IN  (t.op = "cleanup" /\ t.pc # "idle" /\ t2.pc = "idle"
                /\ t2.raised = NoError)
            => /\ \A p \in t.tracked : procs[p].state = "exited"
               /\ DictLen(running_processes') = 0
      ]_vars

----------------------------------------------------------------------------
(* datetime and croniter. *)

(* The clock units in a minute. *)
CronPeriod == 2

MaxSchedTime == 6

MaxExecutionCount == 3

(* The last instant of the clock while one Schedule is driven directly. *)
MaxEntityTime == 2

MaxRetryCount == 3

(* A datetime: an instant of the clock, timezone-aware or naive. *)
DT(t, aware) == [t |-> t, aware |-> aware]

(* datetime.utcnow(): naive. *)
utcnow(t) == DT(t, FALSE)

(* datetime.now(timezone.utc): aware. *)
now_utc(t) == DT(t, TRUE)

ErrNaiveAware ==
    "TypeError: can't compare offset-naive and offset-aware datetimes"

(* a >= b on datetimes: ordering a naive and an aware one raises. *)
datetime_ge(a, b) ==
    IF a.aware # b.aware
    THEN [raised |-> ErrNaiveAware, ret |-> None]
    ELSE [raised |-> NoError, ret |-> Some(a.t >= b.t)]

(* The expressions croniter accepts, among those the model uses. *)
ValidCron == {"* * * * *"}

(* croniter(expr, start).get_next(datetime) for "* * * * *": the first   *)
(* whole minute strictly after start, in start's timezone.               *)
croniter_get_next(expr, start) ==
    DT(((start.t \div CronPeriod) + 1) * CronPeriod, start.aware)

----------------------------------------------------------------------------
(* The Schedule entity. *)

ONCE == "once"

RECURRING == "recurring"

CRON == "cron"

ScheduleType == {ONCE, RECURRING, CRON}

ACTIVE == "active"

INACTIVE == "inactive"

PAUSED == "paused"

ScheduleStatus == {ACTIVE, INACTIVE, PAUSED, COMPLETED, FAILED}

validate_cron_expression_raises(v) == v # None /\ v[1] \notin ValidCron

validate_max_executions_raises(v) == v # None /\ v[1] <= 0

validate_max_retries_raises(v) == v < 0

(* Schedule(...) with the arguments a: None when a validator raises,    *)
(* else the new object;                                                  *)
(* next_run and last_run are as the producer leaves them, unset.         *)
NewSchedule(a) ==
    IF \/ validate_cron_expression_raises(a.cron_expression)
       \/ validate_max_executions_raises(a.max_executions)
       \/ validate_max_retries_raises(a.max_retries)
    THEN None
    ELSE Some([schedule_type   |-> a.schedule_type,
               status          |-> a.status,
               cron_expression |-> a.cron_expression,
               start_time      |-> a.start_time,
               end_time        |-> a.end_time,
               next_run        |-> None,
               last_run        |-> None,
               max_executions  |-> a.max_executions,
               execution_count |-> a.execution_count,
               retry_count     |-> 0,
               max_retries     |-> a.max_retries])

is_active(s) == s.status = ACTIVE

(* should_execute at instant t: the exception raised (or none) and the   *)
(* value returned.                                                       *)
should_execute(s, t) ==
    IF ~is_active(s)
    THEN [raised |-> NoError, ret |-> Some(FALSE)]
    ELSE IF s.max_executions # None /\ s.execution_count >= s.max_executions[1]
    THEN [raised |-> NoError, ret |-> Some(FALSE)]
    ELSE IF s.next_run = None
    THEN [raised |-> NoError, ret |-> Some(FALSE)]
    ELSE datetime_ge(now_utc(t), s.next_run[1])

(* A bug: the next run of a CRON schedule is its start time, as for a    *)
(* ONCE schedule.                                                        *)
calculate_next_run_as_once(s, t) ==
    IF s.schedule_type \in {ONCE, CRON} THEN s.start_time
    ELSE None

calculate_next_run(s, t) ==
    IF s.schedule_type = ONCE THEN s.start_time
    ELSE IF s.schedule_type = CRON /\ s.cron_expression # None
    THEN IF s.cron_expression[1] \in ValidCron
         THEN Some(croniter_get_next(s.cron_expression[1], now_utc(t)))
         ELSE None
    ELSE None

update_next_run(s, t) == [s EXCEPT !.next_run = calculate_next_run(s, t)]

(* should_execute returns True at instant t. *)
IsDue(s, t) == should_execute(s, t) = [raised |-> NoError, ret |-> Some(TRUE)]

(* A bug: the schedule completes one execution late. *)
increment_execution_count_late(s, t) ==
    LET a == update_next_run([s EXCEPT !.execution_count = @ + 1,
                                       !.last_run = Some(now_utc(t))], t)
    IN  IF a.max_executions # None /\ a.execution_count > a.max_executions[1]
        THEN [a EXCEPT !.status = COMPLETED]
        ELSE a

increment_execution_count(s, t) ==
    LET a == update_next_run([s EXCEPT !.execution_count = @ + 1,
                                       !.last_run = Some(now_utc(t))], t)
    IN  IF a.max_executions # None /\ a.execution_count >= a.max_executions[1]
        THEN [a EXCEPT !.status = COMPLETED]
        ELSE a

(* A bug: the schedule fails one attempt early. *)
increment_retry_count_early(s) ==
    LET a == [s EXCEPT !.retry_count = @ + 1]
    IN  IF a.retry_count + 1 >= a.max_retries
        THEN [a EXCEPT !.status = FAILED]
        ELSE a

increment_retry_count(s) ==
    LET a == [s EXCEPT !.retry_count = @ + 1]
    IN  IF a.retry_count >= a.max_retries
        THEN [a EXCEPT !.status = FAILED]
        ELSE a

reset_retry_count(s) == [s EXCEPT !.retry_count = 0]

has_retries_left(s) == s.retry_count < s.max_retries

pause(s) == IF s.status = ACTIVE THEN [s EXCEPT !.status = PAUSED] ELSE s

(* A bug: resume does not look at the status. *)
resume_unguarded(s, t) == update_next_run([s EXCEPT !.status = ACTIVE], t)

resume(s, t) ==
    IF s.status = PAUSED
    THEN update_next_run([s EXCEPT !.status = ACTIVE], t)
    ELSE s

complete(s) == [s EXCEPT !.status = COMPLETED]

fail(s) == [s EXCEPT !.status = FAILED]

(* CronScheduler._execute_schedule, lines 172-173. *)
execute_schedule(s, t) == reset_retry_count(increment_execution_count(s, t))

(* CronScheduler._process_due_schedules, lines 158-164: the handler of   *)
(* an exception raised by _execute_schedule.                             *)
process_failure(s) ==
    LET a == increment_retry_count(s)
    IN  IF ~has_retries_left(a) THEN fail(a) ELSE a

(* The lines of _execute_schedule that call code outside the scheduler   *)
(* and the entity and so may raise: the two calls of the logger, one     *)
(* before the schedule is changed and one after.                         *)
RaisingLines == {168, 175}

(* One turn of the loop of _process_due_schedules (lines 155-164) on     *)
(* schedule s in which _execute_schedule raised at the given line: what  *)
(* the lines before it have made of s, handled by lines 158-164.         *)
failed_turn(s, line, t) ==
    IF line = 168 THEN process_failure(s)
    ELSE process_failure(execute_schedule(s, t))

----------------------------------------------------------------------------
(* The Schedule entity driven through its own methods. *)

CronInputs == {None, Some("* * * * *"), Some("every minute")}

StartTimes ==
    {None, Some(DT(0, TRUE)), Some(DT(0, FALSE)), Some(DT(MaxSchedTime, TRUE))}

EndTimes == {None, Some(DT(0, TRUE))}

MaxExecutionsInputs == {None, Some(0), Some(1), Some(2)}

MaxRetriesInputs == {-1, 1, 2}

(* execution_count is a field as any other: the constructor takes what   *)
(* the producer passes, and no validator looks at it.                    *)
ExecutionCountInputs == {0, 1}

(* The arguments a producer constructs a Schedule with.  A start time   *)
(* is given to ONCE schedules and a cron expression that croniter        *)
(* accepts to CRON schedules, the types whose calculate_next_run reads   *)
(* them.                                                                 *)
ScheduleInputs ==
    { a \in [schedule_type   : ScheduleType,
             status          : ScheduleStatus,
             cron_expression : CronInputs,
             start_time      : StartTimes,
             end_time        : EndTimes,
             max_executions  : MaxExecutionsInputs,
             execution_count : ExecutionCountInputs,
             max_retries     : MaxRetriesInputs] :
        /\ a.schedule_type # ONCE => a.start_time = None
        /\ a.schedule_type # CRON
              => ~(a.cron_expression # None /\ a.cron_expression[1] \in ValidCron) }

(* Time passes while one Schedule is driven through its methods. *)
EntityTick ==
    /\ now < MaxEntityTime
    /\ now' = now + 1
    /\ UNCHANGED <<delay, cmd, res, last, execVars, schedVars>>

ConstructSchedule(a) ==
    /\ sched = None
    /\ sched' = NewSchedule(a)
    /\ last' = [op |-> "construct",
                raised |-> IF sched' = None THEN ValidationError ELSE NoError,
                ret |-> None]
    /\ UNCHANGED <<now, delay, cmd, res, execVars, objects, schedules, scheduler>>

CallShouldExecute ==
    /\ sched # None
    /\ LET r == should_execute(sched[1], now)
       IN  last' = [op |-> "should_execute", raised |-> r.raised, ret |-> r.ret]
    /\ UNCHANGED <<now, delay, cmd, res, execVars, schedVars>>

CallUpdateNextRun ==
    /\ sched # None
    /\ sched' = Some(update_next_run(sched[1], now))
    /\ last' = [op |-> "update_next_run", raised |-> NoError, ret |-> None]
    /\ UNCHANGED <<now, delay, cmd, res, execVars, objects, schedules, scheduler>>

(* _execute_schedule(sched) is called and returns.  The method looks at  *)
(* nothing: it counts the execution of whatever schedule it is handed.   *)
(* last keeps, next to the call, whether the schedule was due.           *)
CallExecuteSchedule ==
    /\ sched # None
    /\ sched[1].execution_count < MaxExecutionCount
    /\ sched' = Some(execute_schedule(sched[1], now))
    /\ last' = [op |-> "execute_schedule", raised |-> NoError, ret |-> None,
                due |-> IsDue(sched[1], now)]
    /\ UNCHANGED <<now, delay, cmd, res, execVars, objects, schedules, scheduler>>

(* A turn of the loop of _process_due_schedules on sched in which        *)
(* _execute_schedule raised at the given line.                           *)
CallProcessFailure(line) ==
    /\ sched # None
    /\ sched[1].execution_count < MaxExecutionCount
    /\ sched[1].retry_count < MaxRetryCount
    /\ sched' = Some(failed_turn(sched[1], line, now))
    /\ last' = [op |-> "process_failure", raised |-> NoError, ret |-> None,
                due |-> IsDue(sched[1], now), line |-> line]
    /\ UNCHANGED <<now, delay, cmd, res, execVars, objects, schedules, scheduler>>

(* The public methods of the entity that change its counters and its     *)
(* status, called by whoever holds the object.                           *)
CallIncrementExecutionCount ==
    /\ sched # None
    /\ sched[1].execution_count < MaxExecutionCount
    /\ sched' = Some(increment_execution_count(sched[1], now))
    /\ last' = [op |-> "increment_execution_count", raised |-> NoError, ret |-> None]
    /\ UNCHANGED <<now, delay, cmd, res, execVars, objects, schedules, scheduler>>

CallIncrementRetryCount ==
    /\ sched # None
    /\ sched[1].retry_count < MaxRetryCount
    /\ sched' = Some(increment_retry_count(sched[1]))
    /\ last' = [op |-> "increment_retry_count", raised |-> NoError, ret |-> None]
    /\ UNCHANGED <<now, delay, cmd, res, execVars, objects, schedules, scheduler>>

CallResetRetryCount ==
    /\ sched # None
    /\ sched' = Some(reset_retry_count(sched[1]))
    /\ last' = [op |-> "reset_retry_count", raised |-> NoError, ret |-> None]
    /\ UNCHANGED <<now, delay, cmd, res, execVars, objects, schedules, scheduler>>

CallComplete ==
    /\ sched # None
    /\ sched' = Some(complete(sched[1]))
    /\ last' = [op |-> "complete", raised |-> NoError, ret |-> None]
    /\ UNCHANGED <<now, delay, cmd, res, execVars, objects, schedules, scheduler>>

CallFail ==
    /\ sched # None
    /\ sched' = Some(fail(sched[1]))
    /\ last' = [op |-> "fail", raised |-> NoError, ret |-> None]
    /\ UNCHANGED <<now, delay, cmd, res, execVars, objects, schedules, scheduler>>

CallPause ==
    /\ sched # None
    /\ sched' = Some(pause(sched[1]))
    /\ last' = [op |-> "pause", raised |-> NoError, ret |-> None]
    /\ UNCHANGED <<now, delay, cmd, res, execVars, objects, schedules, scheduler>>

CallResume ==
    /\ sched # None
    /\ sched' = Some(resume(sched[1], now))
    /\ last' = [op |-> "resume", raised |-> NoError, ret |-> None]
    /\ UNCHANGED <<now, delay, cmd, res, execVars, objects, schedules, scheduler>>

ScheduleNext ==
    \/ EntityTick
    \/ \E a \in ScheduleInputs : ConstructSchedule(a)
    \/ CallShouldExecute
    \/ CallUpdateNextRun
    \/ CallExecuteSchedule
    \/ \E line \in RaisingLines : CallProcessFailure(line)
    \/ CallIncrementExecutionCount
    \/ CallIncrementRetryCount
    \/ CallResetRetryCount
    \/ CallComplete
    \/ CallFail
    \/ CallPause
    \/ CallResume

SpecSchedule == EntityInit /\ [][ScheduleNext]_vars

----------------------------------------------------------------------------
(* Properties of the Schedule entity. *)

(* The end time of the schedule is set and earlier than instant t. *)
EndTimePassed(s, t) == s.end_time # None /\ s.end_time[1].t < t

(* C16: a schedule whose end_time is set and earlier than the current    *)
(* instant is never due (should_execute does not return True) and is     *)
(* never executed, even when it is ACTIVE, its next_run has passed and   *)
(* its execution_count is below max_executions.                          *)
C16_EndTimePassedNeverDue ==
    [][ (sched # None /\ EndTimePassed(sched[1], now))
        => /\ CallShouldExecute => last'.ret # Some(TRUE)
           /\ ~(CallExecuteSchedule /\ IsDue(sched[1], now))
      ]_vars

(* The next run of the schedule as the rules give it at instant t:       *)
(* start_time for ONCE, the first whole minute after t for CRON with an  *)
(* expression, none otherwise.                                           *)
NextRunRule(s, t) ==
    IF s.schedule_type = ONCE THEN s.start_time
    ELSE IF s.schedule_type = CRON /\ s.cron_expression # None
    THEN Some(DT(CHOOSE m \in (t + 1)..(t + CronPeriod) : m % CronPeriod = 0,
                 TRUE))
    ELSE None

(* C18: a successful execution cycle of a due schedule increases         *)
(* execution_count by exactly 1, sets last_run to the current instant,   *)
(* resets retry_count to 0 and recomputes next_run; the schedule becomes *)
(* COMPLETED in that cycle exactly when max_executions is set and        *)
(* execution_count has reached it, and otherwise stays ACTIVE.           *)
C18_SuccessfulCycle ==
    [][ (CallExecuteSchedule /\ IsDue(sched[1], now))
        => LET s  == sched[1]
               s2 == sched'[1]
           IN  /\ s2.execution_count = s.execution_count + 1
               /\ s2.last_run = Some(DT(now, TRUE))
               /\ s2.retry_count = 0
               /\ s2.next_run = NextRunRule(s, now)
               /\ s2.status =
                     (IF s.max_executions # None
                         /\ s2.execution_count = s.max_executions[1]
                      THEN COMPLETED ELSE ACTIVE)
      ]_vars

(* C18 witness: a schedule with max_executions = 2 has been executed     *)
(* twice and is COMPLETED.                                               *)
C18_Witness ==
    /\ sched # None
    /\ last.op = "execute_schedule"
    /\ last.due
    /\ sched[1].max_executions = Some(2)
    /\ sched[1].execution_count = 2
    /\ sched[1].status = COMPLETED
    /\ sched[1].retry_count = 0

(* C19: a ONCE schedule is executed at most once: its execution_count    *)
(* never exceeds 1, whether or not max_executions is set.                *)
C19_OnceAtMostOnce ==
    (sched # None /\ sched[1].schedule_type = ONCE)
    => sched[1].execution_count <= 1

(* The schedule is a CRON schedule. *)
IsCron(s) == s.schedule_type = CRON

(* The step recomputes next_run: update_next_run is called, directly, by *)
(* increment_execution_count or by resume on a PAUSED schedule.          *)
Recomputes ==
    \/ CallUpdateNextRun
    \/ CallExecuteSchedule
    \/ CallIncrementExecutionCount
    \/ CallProcessFailure(175)
    \/ (CallResume /\ sched[1].status = PAUSED)

(* C20: for a CRON schedule, every recomputation of next_run yields an   *)
(* instant strictly later than the instant of the recomputation; after   *)
(* an execution cycle next_run is strictly later than the next_run that  *)
(* triggered it and the schedule is not due again in the same instant.   *)
C20_CronNextRunStrictlyLater ==
    [][ (sched # None /\ IsCron(sched[1]))
        => /\ Recomputes
              => /\ sched'[1].next_run # None
                 /\ sched'[1].next_run[1].t > now
           /\ (CallExecuteSchedule /\ IsDue(sched[1], now))
              => /\ sched'[1].next_run # None
                 /\ sched'[1].next_run[1].t > sched[1].next_run[1].t
                 /\ should_execute(sched'[1], now).ret = Some(FALSE)
      ]_vars

(* C20, amended: for a CRON schedule that has a cron expression, every   *)
(* recomputation of next_run yields an instant strictly later than the   *)
(* instant of the recomputation, after an execution cycle next_run is    *)
(* strictly later than the next_run that triggered it and the schedule   *)
(* is not due again in the same instant; for a CRON schedule without a   *)
(* cron expression every recomputation leaves next_run unset.            *)
C20_CronWithExpression ==
    [][ (sched # None /\ IsCron(sched[1]))
        => IF sched[1].cron_expression # None
           THEN /\ Recomputes
                   => /\ sched'[1].next_run # None
                      /\ sched'[1].next_run[1].t > now
                /\ (CallExecuteSchedule /\ IsDue(sched[1], now))
                   => /\ sched'[1].next_run # None
                      /\ sched'[1].next_run[1].t > sched[1].next_run[1].t
                      /\ should_execute(sched'[1], now).ret = Some(FALSE)
           ELSE Recomputes => sched'[1].next_run = None
      ]_vars

(* C20 witness: a due CRON schedule was executed at a whole minute and   *)
(* its next_run is the following minute.                                 *)
C20_Witness ==
    /\ sched # None
    /\ IsCron(sched[1])
    /\ sched[1].cron_expression # None
    /\ last.op = "execute_schedule"
    /\ last.due
    /\ sched[1].last_run = Some(DT(now, TRUE))
    /\ now % CronPeriod = 0
    /\ sched[1].next_run = Some(DT(now + CronPeriod, TRUE))
    /\ sched[1].status = ACTIVE

----------------------------------------------------------------------------
(* CronScheduler.  schedules is the dict self.schedules, its keys being  *)
(* the ids; the Schedule objects themselves are in objects, since the    *)
(* producer, the dict and the list of due schedules share them.          *)

MaxSchedules == 2

(* The calls the controlling thread makes in one behaviour. *)
MaxCalls == 4

SleepInterval == 1

BackoffInterval == 5

JoinTimeout == 5

SchedIds == 1..MaxSchedules

(* The KeyError of dict.pop(key) for a key the dict has not. *)
ErrKeyError(id) == "KeyError: '" \o ToString(id) \o "'"

(* A bug: every schedule the loop looks at is taken as due. *)
DueTurn_always(s, current_time, t) == [raised |-> NoError, due |-> TRUE]

(* One turn of the loop of get_due_schedules (lines 83-85) on schedule  *)
(* s, at instant t of a call that read the clock at current_time (line   *)
(* 80): the exception a comparison raised, or whether s is appended.     *)
DueTurn(s, current_time, t) ==
    LET r == should_execute(s, t)
    IN  IF r.raised # NoError THEN [raised |-> r.raised, due |-> FALSE]
        ELSE IF r.ret = Some(TRUE) /\ s.next_run # None
        THEN LET g == datetime_ge(utcnow(current_time), s.next_run[1])
             IN  IF g.raised # NoError
                 THEN [raised |-> g.raised, due |-> FALSE]
                 ELSE [raised |-> NoError, due |-> g.ret = Some(TRUE)]
        ELSE [raised |-> NoError, due |-> FALSE]

(* One turn of the first loop of _cleanup_completed_schedules (lines   *)
(* 182-186) on schedule s: whether its key is to be removed, and s       *)
(* itself, completed in the second branch.                               *)
CleanupTurn(s) ==
    IF s.status \in {COMPLETED, FAILED}
    THEN [remove |-> TRUE, schedule |-> s]
    ELSE IF s.max_executions # None /\ s.max_executions[1] # 0
            /\ s.execution_count >= s.max_executions[1]
    THEN [remove |-> TRUE, schedule |-> complete(s)]
    ELSE [remove |-> FALSE, schedule |-> s]

(* The arguments of the schedules a producer hands to the scheduler:   *)
(* ONCE schedules that start at once (aware or naive start time), later  *)
(* or never, one of them with its single execution used up, and one      *)
(* PAUSED.                                                               *)
SchedulerInputs ==
    { a \in [schedule_type   : {ONCE},
             status          : ScheduleStatus,
             cron_expression : {None},
             start_time      : StartTimes,
             end_time        : {None},
             max_executions  : {None, Some(1)},
             execution_count : {0, 1},
             max_retries     : {2}] :
        /\ a.max_executions # None
              => /\ a.execution_count = 1
                 /\ a.start_time = Some(DT(0, TRUE))
        /\ a.max_executions = None => a.execution_count = 0
        /\ a.status # ACTIVE
              => /\ a.start_time = Some(DT(0, TRUE))
                 /\ a.max_executions = None }

SchedulerObjects == {NewSchedule(a)[1] : a \in SchedulerInputs}

(* The schedules the producers hold: any of the above as the first, and  *)
(* schedules whose executions are used up as the others.                 *)
SchedulerObjectSets ==
    { f \in [SchedIds -> SchedulerObjects] :
        \A i \in SchedIds :
           i > 1 => (f[i].status = ACTIVE /\ f[i].max_executions # None) }

Thread == scheduler.thread

(* The controlling thread: the call it is in. *)
Caller == scheduler.caller

(* The polling threads: the one self.scheduler_thread refers to, and one *)
(* an earlier start has created and a later start has let go of.         *)
Slots == {"thread", "detached"}

LoopThread(k) == scheduler[k]

SetLoopThread(k, rec) == scheduler' = [scheduler EXCEPT ![k] = rec]

SetCaller(rec) == scheduler' = [scheduler EXCEPT !.caller = rec]

(* The thread has been started and has not left its loop. *)
Alive(th) == th.pc \notin {"none", "ended"}

(* The thread is running code: it is not blocked in a sleep. *)
Running(th) == th.pc \notin {"none", "ended", "sleep", "backoff"}

(* The clock advances, one second at a time.  A thread that sleeps wakes *)
(* up on time and a join that is due returns on time; the seconds that   *)
(* pass while a thread is running code are counted, and bounded by       *)
(* MaxDelay.                                                             *)
SchedTick ==
    /\ now < MaxSchedTime
    /\ \A k \in Slots :
          LoopThread(k).pc \in {"sleep", "backoff"} => now < LoopThread(k).wake
    /\ IF scheduler.join = None THEN TRUE
       ELSE scheduler.thread.pc # "ended" /\ now < scheduler.join[1]
    /\ IF Caller.pc # "idle" \/ \E k \in Slots : Running(LoopThread(k))
       THEN delay < MaxDelay /\ delay' = delay + 1
       ELSE delay' = delay
    /\ now' = now + 1
    /\ UNCHANGED <<cmd, res, last, execVars, schedVars>>

(* The controlling thread is inside no call and may make one more. *)
CanCall ==
    /\ Caller.pc = "idle"
    /\ scheduler.join = None
    /\ scheduler.calls < MaxCalls

(* The controlling thread enters a call; rec is where the call stands     *)
(* after its first step, IdleCaller when it has returned already.        *)
Calls(rec) ==
    scheduler' = [scheduler EXCEPT !.caller = rec, !.calls = @ + 1]

(* The call op(id) has ended: the exception it raised or the value it    *)
(* returned.                                                             *)
CallEnded(op, id, e, v) == [op |-> op, id |-> id, raised |-> e, ret |-> v]

(* add_schedule, lines 43-45: the test of the status. *)
AddSchedule(id) ==
    /\ CanCall
    /\ IF ~is_active(objects[id])
       THEN /\ Calls(IdleCaller)
            /\ last' = CallEnded("add_schedule", id, NoError, None)
       ELSE /\ Calls([IdleCaller EXCEPT !.pc = "add_update",
                                        !.op = "add_schedule",
                                        !.id = id])
            /\ last' = last
    /\ UNCHANGED <<now, delay, cmd, res, execVars, sched, objects, schedules>>

(* add_schedule, line 48. *)
AddUpdate ==
    /\ Caller.pc = "add_update"
    /\ objects' = [objects EXCEPT ![Caller.id] = update_next_run(@, now)]
    /\ SetCaller([Caller EXCEPT !.pc = "add_insert"])
    /\ UNCHANGED <<now, delay, cmd, res, last, execVars, sched, schedules>>

(* add_schedule, lines 50-51: the schedule is put into the dict, whatever *)
(* its status is by now.                                                 *)
AddInsert ==
    /\ Caller.pc = "add_insert"
    /\ schedules' = DictSet(schedules, Caller.id)
    /\ SetCaller(IdleCaller)
    /\ last' = CallEnded("add_schedule", Caller.id, NoError, None)
    /\ UNCHANGED <<now, delay, cmd, res, execVars, sched, objects>>

(* remove_schedule, line 63 (and 67): the test of the key. *)
RemoveSchedule(id) ==
    /\ CanCall
    /\ IF DictHas(schedules, id)
       THEN /\ Calls([IdleCaller EXCEPT !.pc = "remove_pop",
                                        !.op = "remove_schedule",
                                        !.id = id])
            /\ last' = last
       ELSE /\ Calls(IdleCaller)
            /\ last' = CallEnded("remove_schedule", id, NoError, Some(FALSE))
    /\ UNCHANGED <<now, delay, cmd, res, execVars, sched, objects, schedules>>

(* remove_schedule, lines 64-66: pop raises KeyError when the key has    *)
(* gone since the test.                                                  *)
RemovePop ==
    /\ Caller.pc = "remove_pop"
    /\ IF DictHas(schedules, Caller.id)
       THEN /\ schedules' = DictPop(schedules, Caller.id)
            /\ last' = CallEnded("remove_schedule", Caller.id, NoError, Some(TRUE))
       ELSE /\ schedules' = schedules
            /\ last' = CallEnded("remove_schedule", Caller.id,
                                 ErrKeyError(Caller.id), None)
    /\ SetCaller(IdleCaller)
    /\ UNCHANGED <<now, delay, cmd, res, execVars, sched, objects>>

(* pause_schedule, lines 91-92 (and 96): the lookup. *)
PauseSchedule(id) ==
    /\ CanCall
    /\ IF DictHas(schedules, id)
       THEN /\ Calls([IdleCaller EXCEPT !.pc = "pause_test",
                                        !.op = "pause_schedule",
                                        !.id = id])
            /\ last' = last
       ELSE /\ Calls(IdleCaller)
            /\ last' = CallEnded("pause_schedule", id, NoError, Some(FALSE))
    /\ UNCHANGED <<now, delay, cmd, res, execVars, sched, objects, schedules>>

(* pause, line 203: the test of the status. *)
PauseTest ==
    /\ Caller.pc = "pause_test"
    /\ IF objects[Caller.id].status = ACTIVE
       THEN /\ SetCaller([Caller EXCEPT !.pc = "pause_set"])
            /\ last' = last
       ELSE /\ SetCaller(IdleCaller)
            /\ last' = CallEnded("pause_schedule", Caller.id, NoError, Some(TRUE))
    /\ UNCHANGED <<now, delay, cmd, res, execVars, sched, objects, schedules>>

(* pause, line 204: the assignment; pause_schedule returns. *)
PauseSet ==
    /\ Caller.pc = "pause_set"
    /\ objects' = [objects EXCEPT ![Caller.id].status = PAUSED]
    /\ SetCaller(IdleCaller)
    /\ last' = CallEnded("pause_schedule", Caller.id, NoError, Some(TRUE))
    /\ UNCHANGED <<now, delay, cmd, res, execVars, sched, schedules>>

(* resume_schedule, lines 100-101 (and 105): the lookup. *)
ResumeSchedule(id) ==
    /\ CanCall
    /\ IF DictHas(schedules, id)
       THEN /\ Calls([IdleCaller EXCEPT !.pc = "resume_test",
                                        !.op = "resume_schedule",
                                        !.id = id])
            /\ last' = last
       ELSE /\ Calls(IdleCaller)
            /\ last' = CallEnded("resume_schedule", id, NoError, Some(FALSE))
    /\ UNCHANGED <<now, delay, cmd, res, execVars, sched, objects, schedules>>

(* resume, line 208: the test of the status. *)
ResumeTest ==
    /\ Caller.pc = "resume_test"
    /\ IF objects[Caller.id].status = PAUSED
       THEN /\ SetCaller([Caller EXCEPT !.pc = "resume_set"])
            /\ last' = last
       ELSE /\ SetCaller(IdleCaller)
            /\ last' = CallEnded("resume_schedule", Caller.id, NoError, Some(TRUE))
    /\ UNCHANGED <<now, delay, cmd, res, execVars, sched, objects, schedules>>

(* resume, line 209: the assignment. *)
ResumeSet ==
    /\ Caller.pc = "resume_set"
    /\ objects' = [objects EXCEPT ![Caller.id].status = ACTIVE]
    /\ SetCaller([Caller EXCEPT !.pc = "resume_update"])
    /\ UNCHANGED <<now, delay, cmd, res, last, execVars, sched, schedules>>

(* resume, line 210; resume_schedule returns. *)
ResumeUpdate ==
    /\ Caller.pc = "resume_update"
    /\ objects' = [objects EXCEPT ![Caller.id] = update_next_run(@, now)]
    /\ SetCaller(IdleCaller)
    /\ last' = CallEnded("resume_schedule", Caller.id, NoError, Some(TRUE))
    /\ UNCHANGED <<now, delay, cmd, res, execVars, sched, schedules>>

(* get_due_schedules, lines 79-82, called by the controlling thread: the *)
(* clock is read and the iteration over the values of the dict begins.   *)
CallGetDueSchedules ==
    /\ CanCall
    /\ Calls([IdleCaller EXCEPT !.pc = "due_iter",
                                !.op = "get_due_schedules",
                                !.current_time = now,
                                !.it = DictIter(schedules)])
    /\ UNCHANGED <<now, delay, cmd, res, last, execVars, sched, objects, schedules>>

(* get_due_schedules, lines 82-87: one turn of the loop, or its end.     *)
(* The exception of the iterator or of a comparison leaves the call.     *)
GetDueIter ==
    /\ Caller.pc = "due_iter"
    /\ LET n == DictNext(schedules, Caller.it)
       IN  IF n.raised # NoError
           THEN /\ SetCaller(IdleCaller)
                /\ last' = CallEnded("get_due_schedules", 0, n.raised, None)
           ELSE IF n.stop
           THEN /\ SetCaller(IdleCaller)
                /\ last' = CallEnded("get_due_schedules", 0, NoError,
                                     Some(Caller.due))
           ELSE LET r == DueTurn(objects[n.key[1]], Caller.current_time, now)
                IN  IF r.raised # NoError
                    THEN /\ SetCaller(IdleCaller)
                         /\ last' = CallEnded("get_due_schedules", 0, r.raised, None)
                    ELSE /\ SetCaller([Caller EXCEPT
                                !.it = n.it,
                                !.due = IF r.due THEN Append(@, n.key[1]) ELSE @])
                         /\ last' = last
    /\ UNCHANGED <<now, delay, cmd, res, execVars, sched, objects, schedules>>

(* start, lines 109-120.  The thread that self.scheduler_thread referred *)
(* to runs on when it is alive.                                          *)
Start ==
    /\ CanCall
    /\ IF scheduler.running
       THEN Calls(IdleCaller)
       ELSE /\ ~(Alive(scheduler.thread) /\ Alive(scheduler.detached))
            /\ scheduler' = [scheduler EXCEPT
                   !.calls = @ + 1,
                   !.running = TRUE,
                   !.stop_event = FALSE,
                   !.thread = [NoThread EXCEPT !.pc = "head"],
                   !.detached = IF Alive(scheduler.thread)
                                THEN scheduler.thread
                                ELSE scheduler.detached]
    /\ last' = CallEnded("start", 0, NoError, None)
    /\ UNCHANGED <<now, delay, cmd, res, execVars, sched, objects, schedules>>

(* stop, lines 126-133, up to the call of join. *)
Stop ==
    /\ CanCall
    /\ IF ~scheduler.running
       THEN Calls(IdleCaller)
       ELSE scheduler' = [scheduler EXCEPT
               !.calls = @ + 1,
               !.running = FALSE,
               !.stop_event = TRUE,
               !.join = IF scheduler.thread.pc # "none"
                        THEN Some(now + JoinTimeout)
                        ELSE None]
    /\ last' = CallEnded("stop", 0, NoError, None)
    /\ UNCHANGED <<now, delay, cmd, res, execVars, sched, objects, schedules>>

(* stop, line 133: join returns, because the thread has ended or because *)
(* the timeout is over; stop returns.                                    *)
StopJoin ==
    /\ scheduler.join # None
    /\ (scheduler.thread.pc = "ended" \/ now >= scheduler.join[1])
    /\ scheduler' = [scheduler EXCEPT !.join = None]
    /\ UNCHANGED <<now, delay, cmd, res, last, execVars, sched, objects, schedules>>

(* _scheduler_loop, line 139. *)
LoopHead(k) ==
    /\ LoopThread(k).pc = "head"
    /\ IF scheduler.stop_event
       THEN SetLoopThread(k, [LoopThread(k) EXCEPT !.pc = "ended"])
       ELSE SetLoopThread(k, [LoopThread(k) EXCEPT !.pc = "due_check"])
    /\ UNCHANGED <<now, delay, cmd, res, last, execVars, sched, objects, schedules>>

(* A bug: the loop has no handler, an exception ends the thread. *)
TickFailed_uncaught(th, e, t) == [th EXCEPT !.pc = "ended", !.raised = e]

(* _scheduler_loop, lines 147-149: an exception raised inside the tick   *)
(* is logged and the thread sleeps 5 seconds.                            *)
TickFailed(th, e, t) ==
    [th EXCEPT !.pc = "backoff",
               !.raised = e,
               !.due = << >>,
               !.it = NoIter,
               !.to_remove = << >>,
               !.wake = t + BackoffInterval]

(* get_due_schedules, lines 79-82, called at line 153: the clock is read *)
(* and the iteration over the values of the dict begins.                 *)
LoopDueCheck(k) ==
    /\ LoopThread(k).pc = "due_check"
    /\ SetLoopThread(k, [LoopThread(k) EXCEPT !.pc = "due_iter",
                                !.raised = NoError,
                                !.current_time = now,
                                !.it = DictIter(schedules),
                                !.due = << >>])
    /\ UNCHANGED <<now, delay, cmd, res, last, execVars, sched, objects, schedules>>

(* get_due_schedules, lines 82-87: one turn of the loop, or its end.     *)
LoopDueIter(k) ==
    /\ LoopThread(k).pc = "due_iter"
    /\ LET n == DictNext(schedules, LoopThread(k).it)
       IN  IF n.raised # NoError
           THEN SetLoopThread(k, TickFailed(LoopThread(k), n.raised, now))
           ELSE IF n.stop
           THEN SetLoopThread(k, [LoopThread(k) EXCEPT !.pc = "process",
                                                       !.it = NoIter])
           ELSE LET r == DueTurn(objects[n.key[1]], LoopThread(k).current_time, now)
                IN  IF r.raised # NoError
                    THEN SetLoopThread(k, TickFailed(LoopThread(k), r.raised, now))
                    ELSE SetLoopThread(k, [LoopThread(k) EXCEPT
                              !.it = n.it,
                              !.due = IF r.due THEN Append(@, n.key[1]) ELSE @])
    /\ UNCHANGED <<now, delay, cmd, res, last, execVars, sched, objects, schedules>>

(* _process_due_schedules, lines 155-164: one turn of the loop over the  *)
(* list of due schedules, or its end.  _execute_schedule returns, or     *)
(* raises at one of its lines and the handler counts a retry.            *)
LoopProcess(k) ==
    /\ LoopThread(k).pc = "process"
    /\ IF LoopThread(k).due = << >>
       THEN /\ SetLoopThread(k, [LoopThread(k) EXCEPT !.pc = "cleanup"])
            /\ objects' = objects
       ELSE /\ SetLoopThread(k, [LoopThread(k) EXCEPT !.due = Tail(@)])
            /\ \/ objects' = [objects EXCEPT
                                 ![Head(LoopThread(k).due)] = execute_schedule(@, now)]
               \/ \E line \in RaisingLines :
                     objects' = [objects EXCEPT
                                    ![Head(LoopThread(k).due)] =
                                        failed_turn(@, line, now)]
    /\ UNCHANGED <<now, delay, cmd, res, last, execVars, sched, schedules>>

(* _cleanup_completed_schedules, lines 179-181: the iteration over the   *)
(* items of the dict begins.                                             *)
LoopCleanup(k) ==
    /\ LoopThread(k).pc = "cleanup"
    /\ SetLoopThread(k, [LoopThread(k) EXCEPT !.pc = "cleanup_iter",
                                !.it = DictIter(schedules),
                                !.to_remove = << >>])
    /\ UNCHANGED <<now, delay, cmd, res, last, execVars, sched, objects, schedules>>

(* _cleanup_completed_schedules, lines 181-186: one turn of the first    *)
(* loop, or its end.                                                     *)
LoopCleanupIter(k) ==
    /\ LoopThread(k).pc = "cleanup_iter"
    /\ LET n == DictNext(schedules, LoopThread(k).it)
       IN  IF n.raised # NoError
           THEN /\ SetLoopThread(k, TickFailed(LoopThread(k), n.raised, now))
                /\ objects' = objects
           ELSE IF n.stop
           THEN /\ SetLoopThread(k, [LoopThread(k) EXCEPT !.pc = "cleanup_remove",
                                                          !.it = NoIter])
                /\ objects' = objects
           ELSE LET c == CleanupTurn(objects[n.key[1]])
                IN  /\ SetLoopThread(k, [LoopThread(k) EXCEPT
                           !.it = n.it,
                           !.to_remove = IF c.remove
                                         THEN Append(@, n.key[1]) ELSE @])
                    /\ objects' = [objects EXCEPT ![n.key[1]] = c.schedule]
    /\ UNCHANGED <<now, delay, cmd, res, last, execVars, sched, schedules>>

(* _cleanup_completed_schedules, lines 188-189, and remove_schedule,     *)
(* line 63: one turn of the second loop up to the test of the key; at    *)
(* the end of the loop the tick is over and the thread sleeps 1 second   *)
(* (line 145).                                                           *)
LoopCleanupRemove(k) ==
    /\ LoopThread(k).pc = "cleanup_remove"
    /\ IF LoopThread(k).to_remove = << >>
       THEN SetLoopThread(k, [LoopThread(k) EXCEPT !.pc = "sleep",
                                                   !.wake = now + SleepInterval])
       ELSE IF DictHas(schedules, Head(LoopThread(k).to_remove))
       THEN SetLoopThread(k, [LoopThread(k) EXCEPT !.pc = "cleanup_pop"])
       ELSE SetLoopThread(k, [LoopThread(k) EXCEPT !.to_remove = Tail(@)])
    /\ UNCHANGED <<now, delay, cmd, res, last, execVars, sched, objects, schedules>>

(* remove_schedule, lines 64-66, called at line 189: pop raises KeyError *)
(* when the key has gone since the test.                                 *)
LoopCleanupPop(k) ==
    /\ LoopThread(k).pc = "cleanup_pop"
    /\ IF DictHas(schedules, Head(LoopThread(k).to_remove))
       THEN /\ schedules' = DictPop(schedules, Head(LoopThread(k).to_remove))
            /\ SetLoopThread(k, [LoopThread(k) EXCEPT !.pc = "cleanup_remove",
                                                      !.to_remove = Tail(@)])
       ELSE /\ schedules' = schedules
            /\ SetLoopThread(k, TickFailed(LoopThread(k),
                                  ErrKeyError(Head(LoopThread(k).to_remove)), now))
    /\ UNCHANGED <<now, delay, cmd, res, last, execVars, sched, objects>>

(* time.sleep returns. *)
LoopWake(k) ==
    /\ LoopThread(k).pc \in {"sleep", "backoff"}
    /\ now >= LoopThread(k).wake
    /\ SetLoopThread(k, [LoopThread(k) EXCEPT !.pc = "head", !.wake = 0])
    /\ UNCHANGED <<now, delay, cmd, res, last, execVars, sched, objects, schedules>>

SchedulerInit ==
    /\ now = 0
    /\ delay = 0
    /\ cmd = None
    /\ res = None
    /\ last = [op |-> "init", raised |-> NoError, ret |-> None]
    /\ commands = << >>
    /\ threads = [th \in Threads |-> IdleThread]
    /\ procs = << >>
    /\ running_processes = NewDict
    /\ sched = None
    /\ objects \in SchedulerObjectSets
    /\ schedules = NewDict
    /\ scheduler = NewCronScheduler

(* The steps of the polling thread in slot k. *)
Loop(k) ==
    \/ LoopHead(k)
    \/ LoopDueCheck(k)
    \/ LoopDueIter(k)
    \/ LoopProcess(k)
    \/ LoopCleanup(k)
    \/ LoopCleanupIter(k)
    \/ LoopCleanupRemove(k)
    \/ LoopCleanupPop(k)
    \/ LoopWake(k)

(* add_schedule, step by step. *)
Add ==
    \/ \E id \in SchedIds : AddSchedule(id)
    \/ AddUpdate
    \/ AddInsert

(* The calls of the controlling thread, one at a time. *)
Controller ==
    \/ Add
    \/ \E id \in SchedIds : RemoveSchedule(id)
    \/ RemovePop
    \/ \E id \in SchedIds : PauseSchedule(id)
    \/ PauseTest
    \/ PauseSet
    \/ \E id \in SchedIds : ResumeSchedule(id)
    \/ ResumeTest
    \/ ResumeSet
    \/ ResumeUpdate
    \/ CallGetDueSchedules
    \/ GetDueIter
    \/ Start

SchedulerNext ==
    \/ Loop("thread")
    \/ Controller
    \/ SchedTick

SpecScheduler == SchedulerInit /\ [][SchedulerNext]_vars

----------------------------------------------------------------------------
(* Claims about the scheduler. *)

InList(x, list) == \E i \in 1..Len(list) : list[i] = x

(* The schedules a call of get_due_schedules has returned; none when the *)
(* call raised.                                                          *)
Reported(r) == IF r.raised = NoError /\ r.ret # None THEN r.ret[1] ELSE << >>

(* The due-ness rule without its end-time clause. *)
DueNow(s, t) ==
    /\ s.status = ACTIVE
    /\ s.next_run # None
    /\ s.next_run[1].t <= t
    /\ (s.max_executions = None \/ s.execution_count < s.max_executions[1])

NeverDue(s, t) ==
    \/ s.status = PAUSED
    \/ s.next_run = None
    \/ s.next_run[1].t > t
    \/ (s.max_executions # None /\ s.execution_count = s.max_executions[1])

(* The step returns from, or raises out of, the call of get_due_schedules *)
(* the controlling thread is in.                                         *)
GetDueEnds ==
    /\ Caller.op = "get_due_schedules"
    /\ Caller.pc = "due_iter"
    /\ Caller'.pc = "idle"

(* C15: a call of the due-check returns every registered schedule that   *)
(* is ACTIVE, has its next run set and not later than the current        *)
(* instant and has executions left, and returns no schedule that is      *)
(* PAUSED, has no next run or a future one, or has used up its           *)
(* executions.                                                           *)
C15_DueCheckReportsDue ==
    [][GetDueEnds =>
          /\ last'.raised = NoError
          /\ \A id \in SchedIds :
                DictHas(schedules, id) =>
                   /\ DueNow(objects[id], Caller.current_time)
                         => InList(id, Reported(last'))
                   /\ NeverDue(objects[id], now)
                         => ~InList(id, Reported(last'))]_vars

(* C17: a step that executes a schedule (its execution count or its last *)
(* run changes) is taken only when the schedule's next run is set and    *)
(* not later than the current instant.                                   *)
C17_NoExecutionBeforeNextRun ==
    [][\A id \in SchedIds :
          (\/ objects'[id].execution_count # objects[id].execution_count
           \/ objects'[id].last_run # objects[id].last_run)
             => /\ objects[id].next_run # None
                /\ objects[id].next_run[1].t <= now]_vars

(* A polling tick has processed its due schedules while an ACTIVE        *)
(* schedule whose next run is still to come is registered and was not    *)
(* executed.                                                             *)
C17_Witness ==
    /\ Thread.pc = "cleanup"
    /\ \E id \in SchedIds :
          /\ DictHas(schedules, id)
          /\ objects[id].status = ACTIVE
          /\ objects[id].next_run # None
          /\ objects[id].next_run[1].t > now
          /\ objects[id].execution_count = 0
          /\ objects[id].last_run = None

----------------------------------------------------------------------------
(* Claims about retries, pause and resume of the Schedule entity. *)

C22_ThreeAttempts ==
    [][ \A line \in RaisingLines :
          (CallProcessFailure(line) /\ IsDue(sched[1], now)
              /\ sched[1].max_retries = 2) =>
             /\ sched[1].retry_count < 3
             /\ sched'[1].retry_count = 2 => sched'[1].status = ACTIVE
             /\ sched'[1].retry_count = 3 => sched'[1].status = FAILED
      ]_vars

(* C24: pause changes nothing but the status, and that only from ACTIVE  *)
(* to PAUSED; resume changes the status only from PAUSED to ACTIVE and   *)
(* then recomputes next_run; on any other status either call raises      *)
(* nothing and leaves the schedule as it was.                            *)
C24_PauseResumeFrame ==
    [][ /\ CallPause =>
              /\ last'.raised = NoError
              /\ sched'[1] = IF sched[1].status = ACTIVE
                             THEN [sched[1] EXCEPT !.status = PAUSED]
                             ELSE sched[1]
        /\ CallResume =>
              /\ last'.raised = NoError
              /\ sched'[1] = IF sched[1].status = PAUSED
                             THEN [sched[1] EXCEPT
                                      !.status = ACTIVE,
                                      !.next_run = NextRunRule(sched[1], now)]
                             ELSE sched[1]
      ]_vars

(* resume has been called on a schedule that had completed. *)
C24_Witness ==
    /\ sched # None
    /\ last.op = "resume"
    /\ sched[1].status = COMPLETED
    /\ sched[1].execution_count = 1

----------------------------------------------------------------------------
(* Claims about the registry of the executor. *)

Registered(p) == DictHas(running_processes, p)

(* The thread waits in communicate for a process that is still running. *)
Awaiting(th) ==
    /\ Self(th).op = "execute_command"
    /\ Self(th).pc = "communicate"
    /\ procs[Self(th).process].state = "running"

(* C29: the process an execute call is waiting for has its entry in the  *)
(* registry, every entry belongs to an execute call in flight, no        *)
(* process has two entries, and with no execute call in flight the       *)
(* registry is empty.                                                    *)
C29_OneEntryPerExecution ==
    /\ \A th \in Threads : Awaiting(th) => Registered(Self(th).process)
    /\ \A p \in DictKeys(running_processes) : InFlight(p)
    /\ \A i, j \in DictPlaces(running_processes) :
          running_processes.entries[i] = running_processes.entries[j] => i = j
    /\ (\A th \in Threads : Self(th).op = "execute_command" => Self(th).pc = "idle")
          => DictLen(running_processes) = 0

(* C30: a cancel_command or cleanup call that runs while another thread  *)
(* executes commands ends without an exception, and a cancel_command     *)
(* that returns False has not passed over an entry that was in the       *)
(* registry from the call to the return.                                 *)
C30_RegistrySafeUnderConcurrency ==
    [][ LET t  == threads["ctl"]
            t2 == threads'["ctl"]
        IN  (t.op \in {"cancel_command", "cleanup"} /\ t.pc # "idle"
                /\ t2.pc = "idle")
            => /\ t2.raised = NoError
               /\ (t.op = "cancel_command" /\ t2.ret = Some(FALSE))
                  => ~ \E q \in t.tracked :
                         /\ t.handle = Some(ProcessKey(q))
                         /\ Registered(q)
      ]_vars

----------------------------------------------------------------------------
(* Claims about the polling loop and the schedule collection. *)

Finished(s) == s.status \in {COMPLETED, FAILED}

(* The step ends a polling tick: the thread goes to sleep, after the     *)
(* cleanup or after an exception.                                        *)
TickEnds ==
    /\ Thread.pc \in {"due_iter", "process", "cleanup_iter", "cleanup_remove",
                     "cleanup_pop"}
    /\ Thread'.pc \in {"sleep", "backoff"}

(* C23: when a polling tick ends, no schedule in the collection is       *)
(* COMPLETED or FAILED; and no step executes a schedule that is          *)
(* COMPLETED or FAILED.                                                  *)
C23_NoFinishedScheduleAfterTick ==
    [][ /\ TickEnds =>
              \A id \in SchedIds :
                 DictHas(schedules', id) => ~Finished(objects'[id])
        /\ \A id \in SchedIds :
              objects'[id].execution_count # objects[id].execution_count
                 => ~Finished(objects[id])
      ]_vars

(* C25: remove_schedule(id) returns True exactly when id was a key of    *)
(* the collection, whatever the status of its schedule; after the call   *)
(* id is no key (so that a second call returns False); the other keys    *)
(* keep their places and no schedule object is changed.                  *)
C25_RemoveById ==
    [][ /\ \A id \in SchedIds :
              (RemoveSchedule(id) /\ ~DictHas(schedules, id)) =>
                 /\ last'.raised = NoError
                 /\ last'.ret = Some(FALSE)
                 /\ schedules' = schedules
                 /\ objects' = objects
        /\ \A id \in SchedIds :
              (RemoveSchedule(id) /\ DictHas(schedules, id)) =>
                 schedules' = schedules /\ objects' = objects
        /\ RemovePop =>
              /\ last'.raised = NoError
              /\ last'.ret = Some(TRUE)
              /\ ~DictHas(schedules', Caller.id)
              /\ \A o \in SchedIds \ {Caller.id} :
                    DictHas(schedules', o) <=> DictHas(schedules, o)
              /\ objects' = objects
      ]_vars

(* C26: while stop has not been requested no step ends the polling       *)
(* thread; a tick in which an exception is raised ends in the back-off   *)
(* sleep of 5 seconds, and the thread wakes from a sleep only when it is *)
(* over, and from every sleep within 5 seconds.                          *)
C26_LoopSurvivesErrors ==
    [][ /\ (Thread.pc # "none" /\ ~scheduler.stop_event)
              => Thread'.pc \notin {"none", "ended"}
        /\ (Thread.raised = NoError /\ Thread'.raised # NoError)
              => /\ Thread'.pc = "backoff"
                 /\ Thread'.wake = now + BackoffInterval
        /\ (Thread.pc \in {"sleep", "backoff"} /\ Thread'.pc # Thread.pc)
              => /\ Thread'.pc = "head"
                 /\ now >= Thread.wake
        /\ Thread'.pc \in {"sleep", "backoff"}
              => Thread'.wake <= now' + BackoffInterval
      ]_vars

(* After a tick that failed in a comparison of datetimes, and the        *)
(* back-off sleep, the thread is about to run the next tick.             *)
C26_Witness ==
    /\ Thread.pc = "due_check"
    /\ Thread.raised = ErrNaiveAware
    /\ now >= BackoffInterval
    /\ scheduler.running

(* C27: a step that increments the execution_count of a schedule passes  *)
(* a command to the executor: the state of the executor (its commands,   *)
(* threads, processes and registry) does not stay as it was.             *)
C27_ExecutionDispatchesCommand ==
    [][(CallExecuteSchedule /\ IsDue(sched[1], now))
          => execVars' # execVars]_vars

(* C28: a step of the polling thread inside the due-check or the cleanup *)
(* does not fail because the controlling thread has added or removed a   *)
(* schedule since the iteration began.                                   *)
C28_CollectionGuarded ==
    [][(Thread.pc \in {"due_iter", "cleanup_iter", "cleanup_pop"}
           /\ Thread' # Thread)
          => /\ Thread'.raised \notin {ErrDictChanged, ErrDictKeysChanged}
             /\ \A id \in SchedIds : Thread'.raised # ErrKeyError(id)]_vars

----------------------------------------------------------------------------
(* The ExecutionResult entity driven directly: one object is constructed *)
(* and its three predicates are called on it.                            *)

ResultExitCodes == {None, Some(0), Some(1), Some(-1)}

ResultTexts ==
    { None, Some(<< >>), Some(Str("  ")), Some(Str("\r\n")), Some(<<160, 8232>>),
      Some(Str("hello\n")) }

ResultInputs ==
    { [NewExecutionResult(1, 0) EXCEPT !.success = success,
                                       !.exit_code = exit_code,
                                       !.stdout = stdout,
                                       !.stderr = stderr] :
        success \in BOOLEAN, exit_code \in ResultExitCodes,
        stdout \in ResultTexts, stderr \in ResultTexts }

ConstructResult(r) ==
    /\ res = None
    /\ res' = Some(r)
    /\ last' = [op |-> "construct", raised |-> NoError, ret |-> None]
    /\ UNCHANGED <<now, delay, cmd, execVars, schedVars>>

CallIsSuccessful ==
    /\ res # None
    /\ last' = [op |-> "is_successful", raised |-> NoError,
                ret |-> Some(is_successful(res[1]))]
    /\ UNCHANGED <<now, delay, cmd, res, execVars, schedVars>>

CallHasOutput ==
    /\ res # None
    /\ last' = [op |-> "has_output", raised |-> NoError,
                ret |-> Some(has_output(res[1]))]
    /\ UNCHANGED <<now, delay, cmd, res, execVars, schedVars>>

CallHasErrors ==
    /\ res # None
    /\ last' = [op |-> "has_errors", raised |-> NoError,
                ret |-> Some(has_errors(res[1]))]
    /\ UNCHANGED <<now, delay, cmd, res, execVars, schedVars>>

ResultNext ==
    \/ \E r \in ResultInputs : ConstructResult(r)
    \/ CallIsSuccessful
    \/ CallHasOutput
    \/ CallHasErrors

SpecResult == EntityInit /\ [][ResultNext]_vars

(* C34: is_successful returns true exactly when success is true and the  *)
(* exit code is unset or 0; has_output returns true exactly when stdout  *)
(* is a non-empty string; has_errors returns true exactly when stderr is *)
(* a non-empty string, whatever the success flag and the exit code.      *)
C34_ResultPredicates ==
    res # None =>
        /\ last.op = "is_successful" =>
              last.ret = Some(res[1].success /\
                              (res[1].exit_code = None \/ res[1].exit_code = Some(0)))
        /\ last.op = "has_output" =>
              last.ret = Some(res[1].stdout # None /\ res[1].stdout # Some(<< >>))
        /\ last.op = "has_errors" =>
              last.ret = Some(res[1].stderr # None /\ res[1].stderr # Some(<< >>))

(* The part of C34 the code keeps: is_successful. *)
C34_IsSuccessful ==
    (res # None /\ last.op = "is_successful") =>
        last.ret = Some(res[1].success /\
                        (res[1].exit_code = None \/ res[1].exit_code = Some(0)))

(* What C38 states of a command c. *)
LifecycleFields(c) ==
    /\ (c.exit_code # None) <=> (c.status \in {COMPLETED, FAILED})
    /\ (c.completed_at # None) <=> (c.status \in {COMPLETED, FAILED})
    /\ c.status = COMPLETED => c.exit_code = Some(0)
    /\ c.status = FAILED => c.exit_code # Some(0)
    /\ c.status \in {RUNNING, COMPLETED, FAILED} => c.executed_at # None
    /\ c.status = PENDING =>
          c.exit_code = None /\ c.executed_at = None /\ c.completed_at = None

(* C38: a command constructed PENDING has no exit code and no execution  *)
(* or completion time, and every start, complete and cancel call keeps:  *)
(* exit_code and completed_at are set exactly when the status is         *)
(* COMPLETED or FAILED, COMPLETED goes with exit code 0 and FAILED with  *)
(* another, executed_at is set when the status is RUNNING, COMPLETED or  *)
(* FAILED, and a PENDING command has none of the three set.              *)
C38_LifecycleFields ==
    [][ /\ (cmd = None /\ cmd' # None /\ cmd'[1].status = PENDING)
              => LifecycleFields(cmd'[1])
        /\ (cmd # None /\ LifecycleFields(cmd[1]))
              => LifecycleFields(cmd'[1])
      ]_vars

(* A command has been started and then cancelled: it carries its start   *)
(* time and neither an exit code nor a completion time.                  *)
C38_Witness ==
    /\ cmd # None
    /\ last.op = "cancel_execution"
    /\ last.raised = NoError
    /\ cmd[1].status = CANCELLED
    /\ cmd[1].executed_at # None
    /\ cmd[1].exit_code = None
    /\ cmd[1].completed_at = None

(* C31: a schedule is constructed with execution_count 0, no call on it  *)
(* lowers execution_count, and execution_count never exceeds             *)
(* max_executions when that is set.                                      *)
C31_ExecutionCountBounded ==
    [][ /\ (sched = None /\ sched' # None) => sched'[1].execution_count = 0
        /\ (sched # None) =>
              sched'[1].execution_count >= sched[1].execution_count
        /\ (sched' # None /\ sched'[1].max_executions # None) =>
              sched'[1].execution_count <= sched'[1].max_executions[1]
      ]_vars

(* C40: add_schedule registers the schedule only when it is ACTIVE, and  *)
(* then sets its next_run and changes nothing else of it; for a schedule *)
(* of any other status the collection and the schedule stay as they      *)
(* were.  A schedule that is not registered is not resumed, paused or    *)
(* removed through the scheduler (the calls return False and change      *)
(* nothing) and is not reported by the due-check.                        *)
C40_OnlyActiveIsRegistered ==
    [][ /\ \A id \in SchedIds :
              AddSchedule(id) => schedules' = schedules /\ objects' = objects
        /\ AddUpdate =>
              /\ schedules' = schedules
              /\ objects' = [objects EXCEPT ![Caller.id] =
                    [@ EXCEPT !.next_run = NextRunRule(objects[Caller.id], now)]]
        /\ AddInsert =>
              /\ objects' = objects
              /\ objects[Caller.id].status = ACTIVE
              /\ DictHas(schedules', Caller.id)
              /\ \A o \in SchedIds \ {Caller.id} :
                    DictHas(schedules', o) <=> DictHas(schedules, o)
        /\ \A id \in SchedIds :
              ~DictHas(schedules, id) =>
                 /\ (ResumeSchedule(id) \/ PauseSchedule(id) \/ RemoveSchedule(id))
                       => /\ last'.ret = Some(FALSE)
                          /\ Caller'.pc = "idle"
                          /\ schedules' = schedules
                          /\ objects' = objects
                 /\ GetDueEnds => ~InList(id, Reported(last'))
        /\ (PauseSet \/ ResumeSet \/ ResumeUpdate \/ RemovePop)
              => DictHas(schedules, Caller.id)
      ]_vars

(* C39: when execute_command has returned a result, the command is       *)
(* COMPLETED or FAILED, the result's success is true exactly when the    *)
(* command is COMPLETED, and the result carries the command's exit code  *)
(* and stderr.                                                           *)
C39_ResultAgreesWithCommand ==
    \A th \in Threads :
        (ExecuteEnded(th) /\ Self(th).ret # None)
        => LET c == commands[Self(th).command]
               r == Self(th).ret[1]
           IN  /\ c.status \in {COMPLETED, FAILED}
               /\ r.success <=> (c.status = COMPLETED)
               /\ r.exit_code = c.exit_code
               /\ r.stderr = c.stderr

(* The part of C39 that does not depend on the exit code. *)
C39_StatusAndStderrAgree ==
    \A th \in Threads :
        (ExecuteEnded(th) /\ Self(th).ret # None)
        => LET c == commands[Self(th).command]
               r == Self(th).ret[1]
           IN  /\ c.status \in {COMPLETED, FAILED}
               /\ r.success <=> (c.status = COMPLETED)
               /\ r.stderr = c.stderr

----------------------------------------------------------------------------
(* Two threads call execute_command, each with its own event loop, and   *)
(* may be handed the same Command.  The calls are followed within one    *)
(* second of the clock, the processes exiting by themselves: no timeout  *)
(* expires.                                                              *)
ConcurrentNext ==
    \/ \E th \in Executors, c \in CmdIds : ExecBegin(th, c)
    \/ \E th \in Executors : ExecStartCheck(th)
    \/ \E th \in Executors : ExecStartSet(th)
    \/ \E th \in Executors : ExecPopen(th)
    \/ \E th \in Executors : ExecRegister(th)
    \/ \E th \in Executors : ExecCommunicateReturns(th)
    \/ \E th \in Executors : ExecFinally(th)
    \/ \E th \in Executors : ExecUpdate(th)
    \/ \E th \in Executors : ExecComplete(th)
    \/ \E p \in DOMAIN procs, out \in ProcessOutcomes : ProcExits(p, out)
    \/ \E p \in DOMAIN procs : ChildExits(p)

SpecConcurrent == ExecInit /\ [][ConcurrentNext]_vars

(* The thread's current or last call is an execute_command on command c  *)
(* that has spawned a process.                                           *)
Spawned(th, c) ==
    /\ Self(th).op = "execute_command"
    /\ Self(th).command = c
    /\ Self(th).process # 0

(* C35: of the execute_command calls made on one Command at most one     *)
(* sets it RUNNING and spawns a process; a call that finds the command   *)
(* no longer PENDING ends with the ValueError and spawns nothing.        *)
C35_RunAtMostOnce ==
    \A c \in CmdIds : \A t1, t2 \in Threads :
        (t1 # t2 /\ Spawned(t1, c)) => ~Spawned(t2, c)

----------------------------------------------------------------------------
(* The life cycle of the scheduler: start and stop calls made one after  *)
(* the other and the polling threads they create, while schedules are    *)
(* registered.                                                           *)
LifecycleNext ==
    \/ \E k \in Slots : Loop(k)
    \/ Add
    \/ Start
    \/ Stop
    \/ StopJoin
    \/ SchedTick

SpecLifecycle == SchedulerInit /\ [][LifecycleNext]_vars

(* The thread is inside a tick: it has found stop_event clear at the     *)
(* head of its loop and has not gone to sleep since.                     *)
InTick(th) ==
    th.pc \in {"due_check", "due_iter", "process", "cleanup",
               "cleanup_iter", "cleanup_remove", "cleanup_pop"}

(* C37: at no time are two polling threads inside a tick, whatever start *)
(* and stop calls have been made.                                        *)
C37_AtMostOneLoop ==
    ~(InTick(scheduler.thread) /\ InTick(scheduler.detached))

----------------------------------------------------------------------------
(* The executor under fair scheduling: the calling thread keeps running  *)
(* while it has a step to take, the clock advances while a thread waits  *)
(* for it, and the kernel ends a process that was sent SIGKILL.  A       *)
(* process that was not sent SIGKILL may run for ever.                   *)
ExecFairness ==
    /\ WF_vars(Execute("main") \/ Terminate("main"))
    /\ WF_vars((\E th \in Threads : Waiting(th)) /\ TimePasses)
    /\ WF_vars(\E p \in DOMAIN procs : ProcDies(p, SIGKILL))

SpecExecutorFair == ExecInit /\ [][ExecNext]_vars /\ ExecFairness

(* The call has passed the gate. *)
Admitted(th) == Self(th).pc = "start_check"

(* C32: every execute_command call that has passed the gate ends,        *)
(* whether the process exits by itself, runs past the timeout and dies   *)
(* of SIGTERM, or ignores SIGTERM and is killed after the grace period;  *)
(* a call can outlast only the modelled clock, which stops at MaxTime.   *)
C32_ExecuteReturns ==
    Admitted("main") ~> (ExecuteEnded("main") \/ now = MaxTime)

(* A call has returned whose process ran past the timeout, ignored       *)
(* SIGTERM for the whole grace period and was killed.                    *)
C32_Witness ==
    /\ ExecuteEnded("main")
    /\ Self("main").ret # None
    /\ Self("main").path = "timeout"
    /\ procs[Self("main").process].signals = {SIGTERM, SIGKILL}
    /\ procs[Self("main").process].returncode = Some(-SIGKILL)
    /\ now < MaxTime

----------------------------------------------------------------------------
(* The polling loop under fair scheduling: schedules are registered, the *)
(* scheduler is started, and then the polling thread keeps running while *)
(* it has a step to take, the controlling thread finishes the call it is *)
(* in and the clock advances.  No schedule is paused or removed.         *)
PollingNext ==
    \/ Loop("thread")
    \/ Add
    \/ Start
    \/ SchedTick

PollingFairness ==
    /\ WF_vars(Loop("thread"))
    /\ WF_vars(AddUpdate \/ AddInsert)
    /\ WF_vars(SchedTick)

SpecPollingFair == SchedulerInit /\ [][PollingNext]_vars /\ PollingFairness

(* The schedule is registered and due while the polling loop runs, and   *)
(* has neither been executed nor failed so far.                          *)
DueWhilePolling(id) ==
    /\ scheduler.running
    /\ Alive(Thread)
    /\ DictHas(schedules, id)
    /\ DueNow(objects[id], now)
    /\ objects[id].execution_count = 0
    /\ objects[id].retry_count = 0

C33_LoopNeverExecutes ==
    [][\A id \in SchedIds :
          /\ objects'[id].execution_count = objects[id].execution_count
          /\ objects'[id].retry_count = objects[id].retry_count
          /\ objects'[id].last_run = objects[id].last_run]_vars

====
